---- MODULE Spec2Model ----
(***************************************************************************)
(* Model of tools/verify_page_descriptions.py (Lumina-Sheets).             *)
(*                                                                         *)
(* A Python str is a sequence of one-character strings, so that the        *)
(* regular expressions and string methods of the tool are computed on the  *)
(* text itself: <<"a", "-", "b">> is 'a-b'.                                *)
(***************************************************************************)
EXTENDS Naturals, Sequences, FiniteSets, TLC

VARIABLES
    pc,           \* position of the run: start, scan, errors, done, raised
    layout_text,  \* text of layout.html (LAYOUT_PATH)
    files,        \* the files os.walk yields, in walk order, layout.html among them;
                  \* dir, name and text are what the code reads, head, base, ext,
                  \* kind, props and sep record how the file was written
    lookup,       \* main's lookup: a dict, as the sequence of its <<key, value>> items
    idx,          \* index in files of the next file the generator reads
    records,      \* the triples iter_layout_pages has yielded so far
    coverage,     \* main's coverage list
    missing,      \* main's missing list
    stdout,       \* the reports printed on standard output
    stderr,       \* the lines printed on standard error by main
    exit_status,  \* the status the process has exited with: <<>> while it runs
    error,        \* "none", or the name of the uncaught exception
    entries_src,  \* the 'key': 'value' entries written into layout_text, in order
    value_in,     \* slugify's argument
    value_out     \* the values slugify has returned: <<>> before the call

vars == <<pc, layout_text, files, lookup, idx, records, coverage, missing,
          stdout, stderr, exit_status, error, entries_src, value_in, value_out>>

(***************************************************************************)
(* Bounds of the model.                                                    *)
(***************************************************************************)
MaxLen == 5       \* longest slugify argument drawn
MaxEntries == 3   \* most entries written into the layout table
MaxProps == 2     \* most properties written into an include block
MaxFiles == 2     \* most files under the project root besides layout.html

(***************************************************************************)
(* Characters and string methods.                                          *)
(*                                                                         *)
(* A string is the sequence of its characters.  A character of the range   *)
(* U+0000..U+00FF is the string of length one that holds it; a character   *)
(* no string literal can hold, the grave accent and those beyond U+00FF,   *)
(* is written by its code point: "U+0060", "U+212A" for the Kelvin sign,   *)
(* "U+10400".  The character classes are those of Unicode 14, the version  *)
(* of Python 3.11, over all code points U+0000..U+10FFFF.                  *)
(***************************************************************************)
HexDigits == <<"0","1","2","3","4","5","6","7","8","9","A","B","C","D","E","F">>
HexDigit(n, k) == HexDigits[((n \div (16 ^ k)) % 16) + 1]

\* the name of a code point: U+ and at least four hexadecimal digits
CodePointName(n) ==
    LET low == HexDigit(n, 3) \o HexDigit(n, 2) \o HexDigit(n, 1) \o HexDigit(n, 0)
    IN  IF n < \h10000 THEN "U+" \o low
        ELSE IF n < \h100000 THEN "U+" \o HexDigit(n, 4) \o low
        ELSE "U+" \o HexDigit(n, 5) \o HexDigit(n, 4) \o low

\* the characters of a set of ranges <<first, last>> of code points
CharsOf(ranges) == {CodePointName(n) : n \in UNION {r[1]..r[2] : r \in ranges}}

UpperChars == <<"A","B","C","D","E","F","G","H","I","J","K","L","M",
                "N","O","P","Q","R","S","T","U","V","W","X","Y","Z">>
LowerChars == <<"a","b","c","d","e","f","g","h","i","j","k","l","m",
                "n","o","p","q","r","s","t","u","v","w","x","y","z">>
DigitChars == {"0","1","2","3","4","5","6","7","8","9"}
UpperSet == {UpperChars[i] : i \in 1..26}
LowerSet == {LowerChars[i] : i \in 1..26}

\* [A-Za-z0-9]
AlnumChars == UpperSet \cup LowerSet \cup DigitChars
IsAlnum(c) == c \in AlnumChars

\* the characters beyond ASCII that \w matches in a str pattern, the letters and
\* the numeric characters: those of U+0080..U+00FF, and the ranges beyond
WordCharsLatin1 ==
   {"ª", "²", "³", "µ", "¹", "º", "¼", "½", "¾", "À", "Á", "Â", "Ã", "Ä", "Å", "Æ", "Ç", "È",
    "É", "Ê", "Ë", "Ì", "Í", "Î", "Ï", "Ð", "Ñ", "Ò", "Ó", "Ô", "Õ", "Ö", "Ø", "Ù", "Ú", "Û",
    "Ü", "Ý", "Þ", "ß", "à", "á", "â", "ã", "ä", "å", "æ", "ç", "è", "é", "ê", "ë", "ì", "í",
    "î", "ï", "ð", "ñ", "ò", "ó", "ô", "õ", "ö", "ø", "ù", "ú", "û", "ü", "ý", "þ", "ÿ"}
WordRanges ==
   {<<\h0100, \h02C1>>, <<\h02C6, \h02D1>>, <<\h02E0, \h02E4>>, <<\h02EC, \h02EC>>,
    <<\h02EE, \h02EE>>, <<\h0370, \h0374>>, <<\h0376, \h0377>>, <<\h037A, \h037D>>,
    <<\h037F, \h037F>>, <<\h0386, \h0386>>, <<\h0388, \h038A>>, <<\h038C, \h038C>>,
    <<\h038E, \h03A1>>, <<\h03A3, \h03F5>>, <<\h03F7, \h0481>>, <<\h048A, \h052F>>,
    <<\h0531, \h0556>>, <<\h0559, \h0559>>, <<\h0560, \h0588>>, <<\h05D0, \h05EA>>,
    <<\h05EF, \h05F2>>, <<\h0620, \h064A>>, <<\h0660, \h0669>>, <<\h066E, \h066F>>,
    <<\h0671, \h06D3>>, <<\h06D5, \h06D5>>, <<\h06E5, \h06E6>>, <<\h06EE, \h06FC>>,
    <<\h06FF, \h06FF>>, <<\h0710, \h0710>>, <<\h0712, \h072F>>, <<\h074D, \h07A5>>,
    <<\h07B1, \h07B1>>, <<\h07C0, \h07EA>>, <<\h07F4, \h07F5>>, <<\h07FA, \h07FA>>,
    <<\h0800, \h0815>>, <<\h081A, \h081A>>, <<\h0824, \h0824>>, <<\h0828, \h0828>>,
    <<\h0840, \h0858>>, <<\h0860, \h086A>>, <<\h0870, \h0887>>, <<\h0889, \h088E>>,
    <<\h08A0, \h08C9>>, <<\h0904, \h0939>>, <<\h093D, \h093D>>, <<\h0950, \h0950>>,
    <<\h0958, \h0961>>, <<\h0966, \h096F>>, <<\h0971, \h0980>>, <<\h0985, \h098C>>,
    <<\h098F, \h0990>>, <<\h0993, \h09A8>>, <<\h09AA, \h09B0>>, <<\h09B2, \h09B2>>,
    <<\h09B6, \h09B9>>, <<\h09BD, \h09BD>>, <<\h09CE, \h09CE>>, <<\h09DC, \h09DD>>,
    <<\h09DF, \h09E1>>, <<\h09E6, \h09F1>>, <<\h09F4, \h09F9>>, <<\h09FC, \h09FC>>,
    <<\h0A05, \h0A0A>>, <<\h0A0F, \h0A10>>, <<\h0A13, \h0A28>>, <<\h0A2A, \h0A30>>,
    <<\h0A32, \h0A33>>, <<\h0A35, \h0A36>>, <<\h0A38, \h0A39>>, <<\h0A59, \h0A5C>>,
    <<\h0A5E, \h0A5E>>, <<\h0A66, \h0A6F>>, <<\h0A72, \h0A74>>, <<\h0A85, \h0A8D>>,
    <<\h0A8F, \h0A91>>, <<\h0A93, \h0AA8>>, <<\h0AAA, \h0AB0>>, <<\h0AB2, \h0AB3>>,
    <<\h0AB5, \h0AB9>>, <<\h0ABD, \h0ABD>>, <<\h0AD0, \h0AD0>>, <<\h0AE0, \h0AE1>>,
    <<\h0AE6, \h0AEF>>, <<\h0AF9, \h0AF9>>, <<\h0B05, \h0B0C>>, <<\h0B0F, \h0B10>>,
    <<\h0B13, \h0B28>>, <<\h0B2A, \h0B30>>, <<\h0B32, \h0B33>>, <<\h0B35, \h0B39>>,
    <<\h0B3D, \h0B3D>>, <<\h0B5C, \h0B5D>>, <<\h0B5F, \h0B61>>, <<\h0B66, \h0B6F>>,
    <<\h0B71, \h0B77>>, <<\h0B83, \h0B83>>, <<\h0B85, \h0B8A>>, <<\h0B8E, \h0B90>>,
    <<\h0B92, \h0B95>>, <<\h0B99, \h0B9A>>, <<\h0B9C, \h0B9C>>, <<\h0B9E, \h0B9F>>,
    <<\h0BA3, \h0BA4>>, <<\h0BA8, \h0BAA>>, <<\h0BAE, \h0BB9>>, <<\h0BD0, \h0BD0>>,
    <<\h0BE6, \h0BF2>>, <<\h0C05, \h0C0C>>, <<\h0C0E, \h0C10>>, <<\h0C12, \h0C28>>,
    <<\h0C2A, \h0C39>>, <<\h0C3D, \h0C3D>>, <<\h0C58, \h0C5A>>, <<\h0C5D, \h0C5D>>,
    <<\h0C60, \h0C61>>, <<\h0C66, \h0C6F>>, <<\h0C78, \h0C7E>>, <<\h0C80, \h0C80>>,
    <<\h0C85, \h0C8C>>, <<\h0C8E, \h0C90>>, <<\h0C92, \h0CA8>>, <<\h0CAA, \h0CB3>>,
    <<\h0CB5, \h0CB9>>, <<\h0CBD, \h0CBD>>, <<\h0CDD, \h0CDE>>, <<\h0CE0, \h0CE1>>,
    <<\h0CE6, \h0CEF>>, <<\h0CF1, \h0CF2>>, <<\h0D04, \h0D0C>>, <<\h0D0E, \h0D10>>,
    <<\h0D12, \h0D3A>>, <<\h0D3D, \h0D3D>>, <<\h0D4E, \h0D4E>>, <<\h0D54, \h0D56>>,
    <<\h0D58, \h0D61>>, <<\h0D66, \h0D78>>, <<\h0D7A, \h0D7F>>, <<\h0D85, \h0D96>>,
    <<\h0D9A, \h0DB1>>, <<\h0DB3, \h0DBB>>, <<\h0DBD, \h0DBD>>, <<\h0DC0, \h0DC6>>,
    <<\h0DE6, \h0DEF>>, <<\h0E01, \h0E30>>, <<\h0E32, \h0E33>>, <<\h0E40, \h0E46>>,
    <<\h0E50, \h0E59>>, <<\h0E81, \h0E82>>, <<\h0E84, \h0E84>>, <<\h0E86, \h0E8A>>,
    <<\h0E8C, \h0EA3>>, <<\h0EA5, \h0EA5>>, <<\h0EA7, \h0EB0>>, <<\h0EB2, \h0EB3>>,
    <<\h0EBD, \h0EBD>>, <<\h0EC0, \h0EC4>>, <<\h0EC6, \h0EC6>>, <<\h0ED0, \h0ED9>>,
    <<\h0EDC, \h0EDF>>, <<\h0F00, \h0F00>>, <<\h0F20, \h0F33>>, <<\h0F40, \h0F47>>,
    <<\h0F49, \h0F6C>>, <<\h0F88, \h0F8C>>, <<\h1000, \h102A>>, <<\h103F, \h1049>>,
    <<\h1050, \h1055>>, <<\h105A, \h105D>>, <<\h1061, \h1061>>, <<\h1065, \h1066>>,
    <<\h106E, \h1070>>, <<\h1075, \h1081>>, <<\h108E, \h108E>>, <<\h1090, \h1099>>,
    <<\h10A0, \h10C5>>, <<\h10C7, \h10C7>>, <<\h10CD, \h10CD>>, <<\h10D0, \h10FA>>,
    <<\h10FC, \h1248>>, <<\h124A, \h124D>>, <<\h1250, \h1256>>, <<\h1258, \h1258>>,
    <<\h125A, \h125D>>, <<\h1260, \h1288>>, <<\h128A, \h128D>>, <<\h1290, \h12B0>>,
    <<\h12B2, \h12B5>>, <<\h12B8, \h12BE>>, <<\h12C0, \h12C0>>, <<\h12C2, \h12C5>>,
    <<\h12C8, \h12D6>>, <<\h12D8, \h1310>>, <<\h1312, \h1315>>, <<\h1318, \h135A>>,
    <<\h1369, \h137C>>, <<\h1380, \h138F>>, <<\h13A0, \h13F5>>, <<\h13F8, \h13FD>>,
    <<\h1401, \h166C>>, <<\h166F, \h167F>>, <<\h1681, \h169A>>, <<\h16A0, \h16EA>>,
    <<\h16EE, \h16F8>>, <<\h1700, \h1711>>, <<\h171F, \h1731>>, <<\h1740, \h1751>>,
    <<\h1760, \h176C>>, <<\h176E, \h1770>>, <<\h1780, \h17B3>>, <<\h17D7, \h17D7>>,
    <<\h17DC, \h17DC>>, <<\h17E0, \h17E9>>, <<\h17F0, \h17F9>>, <<\h1810, \h1819>>,
    <<\h1820, \h1878>>, <<\h1880, \h1884>>, <<\h1887, \h18A8>>, <<\h18AA, \h18AA>>,
    <<\h18B0, \h18F5>>, <<\h1900, \h191E>>, <<\h1946, \h196D>>, <<\h1970, \h1974>>,
    <<\h1980, \h19AB>>, <<\h19B0, \h19C9>>, <<\h19D0, \h19DA>>, <<\h1A00, \h1A16>>,
    <<\h1A20, \h1A54>>, <<\h1A80, \h1A89>>, <<\h1A90, \h1A99>>, <<\h1AA7, \h1AA7>>,
    <<\h1B05, \h1B33>>, <<\h1B45, \h1B4C>>, <<\h1B50, \h1B59>>, <<\h1B83, \h1BA0>>,
    <<\h1BAE, \h1BE5>>, <<\h1C00, \h1C23>>, <<\h1C40, \h1C49>>, <<\h1C4D, \h1C7D>>,
    <<\h1C80, \h1C88>>, <<\h1C90, \h1CBA>>, <<\h1CBD, \h1CBF>>, <<\h1CE9, \h1CEC>>,
    <<\h1CEE, \h1CF3>>, <<\h1CF5, \h1CF6>>, <<\h1CFA, \h1CFA>>, <<\h1D00, \h1DBF>>,
    <<\h1E00, \h1F15>>, <<\h1F18, \h1F1D>>, <<\h1F20, \h1F45>>, <<\h1F48, \h1F4D>>,
    <<\h1F50, \h1F57>>, <<\h1F59, \h1F59>>, <<\h1F5B, \h1F5B>>, <<\h1F5D, \h1F5D>>,
    <<\h1F5F, \h1F7D>>, <<\h1F80, \h1FB4>>, <<\h1FB6, \h1FBC>>, <<\h1FBE, \h1FBE>>,
    <<\h1FC2, \h1FC4>>, <<\h1FC6, \h1FCC>>, <<\h1FD0, \h1FD3>>, <<\h1FD6, \h1FDB>>,
    <<\h1FE0, \h1FEC>>, <<\h1FF2, \h1FF4>>, <<\h1FF6, \h1FFC>>, <<\h2070, \h2071>>,
    <<\h2074, \h2079>>, <<\h207F, \h2089>>, <<\h2090, \h209C>>, <<\h2102, \h2102>>,
    <<\h2107, \h2107>>, <<\h210A, \h2113>>, <<\h2115, \h2115>>, <<\h2119, \h211D>>,
    <<\h2124, \h2124>>, <<\h2126, \h2126>>, <<\h2128, \h2128>>, <<\h212A, \h212D>>,
    <<\h212F, \h2139>>, <<\h213C, \h213F>>, <<\h2145, \h2149>>, <<\h214E, \h214E>>,
    <<\h2150, \h2189>>, <<\h2460, \h249B>>, <<\h24EA, \h24FF>>, <<\h2776, \h2793>>,
    <<\h2C00, \h2CE4>>, <<\h2CEB, \h2CEE>>, <<\h2CF2, \h2CF3>>, <<\h2CFD, \h2CFD>>,
    <<\h2D00, \h2D25>>, <<\h2D27, \h2D27>>, <<\h2D2D, \h2D2D>>, <<\h2D30, \h2D67>>,
    <<\h2D6F, \h2D6F>>, <<\h2D80, \h2D96>>, <<\h2DA0, \h2DA6>>, <<\h2DA8, \h2DAE>>,
    <<\h2DB0, \h2DB6>>, <<\h2DB8, \h2DBE>>, <<\h2DC0, \h2DC6>>, <<\h2DC8, \h2DCE>>,
    <<\h2DD0, \h2DD6>>, <<\h2DD8, \h2DDE>>, <<\h2E2F, \h2E2F>>, <<\h3005, \h3007>>,
    <<\h3021, \h3029>>, <<\h3031, \h3035>>, <<\h3038, \h303C>>, <<\h3041, \h3096>>,
    <<\h309D, \h309F>>, <<\h30A1, \h30FA>>, <<\h30FC, \h30FF>>, <<\h3105, \h312F>>,
    <<\h3131, \h318E>>, <<\h3192, \h3195>>, <<\h31A0, \h31BF>>, <<\h31F0, \h31FF>>,
    <<\h3220, \h3229>>, <<\h3248, \h324F>>, <<\h3251, \h325F>>, <<\h3280, \h3289>>,
    <<\h32B1, \h32BF>>, <<\h3400, \h4DBF>>, <<\h4E00, \hA48C>>, <<\hA4D0, \hA4FD>>,
    <<\hA500, \hA60C>>, <<\hA610, \hA62B>>, <<\hA640, \hA66E>>, <<\hA67F, \hA69D>>,
    <<\hA6A0, \hA6EF>>, <<\hA717, \hA71F>>, <<\hA722, \hA788>>, <<\hA78B, \hA7CA>>,
    <<\hA7D0, \hA7D1>>, <<\hA7D3, \hA7D3>>, <<\hA7D5, \hA7D9>>, <<\hA7F2, \hA801>>,
    <<\hA803, \hA805>>, <<\hA807, \hA80A>>, <<\hA80C, \hA822>>, <<\hA830, \hA835>>,
    <<\hA840, \hA873>>, <<\hA882, \hA8B3>>, <<\hA8D0, \hA8D9>>, <<\hA8F2, \hA8F7>>,
    <<\hA8FB, \hA8FB>>, <<\hA8FD, \hA8FE>>, <<\hA900, \hA925>>, <<\hA930, \hA946>>,
    <<\hA960, \hA97C>>, <<\hA984, \hA9B2>>, <<\hA9CF, \hA9D9>>, <<\hA9E0, \hA9E4>>,
    <<\hA9E6, \hA9FE>>, <<\hAA00, \hAA28>>, <<\hAA40, \hAA42>>, <<\hAA44, \hAA4B>>,
    <<\hAA50, \hAA59>>, <<\hAA60, \hAA76>>, <<\hAA7A, \hAA7A>>, <<\hAA7E, \hAAAF>>,
    <<\hAAB1, \hAAB1>>, <<\hAAB5, \hAAB6>>, <<\hAAB9, \hAABD>>, <<\hAAC0, \hAAC0>>,
    <<\hAAC2, \hAAC2>>, <<\hAADB, \hAADD>>, <<\hAAE0, \hAAEA>>, <<\hAAF2, \hAAF4>>,
    <<\hAB01, \hAB06>>, <<\hAB09, \hAB0E>>, <<\hAB11, \hAB16>>, <<\hAB20, \hAB26>>,
    <<\hAB28, \hAB2E>>, <<\hAB30, \hAB5A>>, <<\hAB5C, \hAB69>>, <<\hAB70, \hABE2>>,
    <<\hABF0, \hABF9>>, <<\hAC00, \hD7A3>>, <<\hD7B0, \hD7C6>>, <<\hD7CB, \hD7FB>>,
    <<\hF900, \hFA6D>>, <<\hFA70, \hFAD9>>, <<\hFB00, \hFB06>>, <<\hFB13, \hFB17>>,
    <<\hFB1D, \hFB1D>>, <<\hFB1F, \hFB28>>, <<\hFB2A, \hFB36>>, <<\hFB38, \hFB3C>>,
    <<\hFB3E, \hFB3E>>, <<\hFB40, \hFB41>>, <<\hFB43, \hFB44>>, <<\hFB46, \hFBB1>>,
    <<\hFBD3, \hFD3D>>, <<\hFD50, \hFD8F>>, <<\hFD92, \hFDC7>>, <<\hFDF0, \hFDFB>>,
    <<\hFE70, \hFE74>>, <<\hFE76, \hFEFC>>, <<\hFF10, \hFF19>>, <<\hFF21, \hFF3A>>,
    <<\hFF41, \hFF5A>>, <<\hFF66, \hFFBE>>, <<\hFFC2, \hFFC7>>, <<\hFFCA, \hFFCF>>,
    <<\hFFD2, \hFFD7>>, <<\hFFDA, \hFFDC>>, <<\h10000, \h1000B>>, <<\h1000D, \h10026>>,
    <<\h10028, \h1003A>>, <<\h1003C, \h1003D>>, <<\h1003F, \h1004D>>, <<\h10050, \h1005D>>,
    <<\h10080, \h100FA>>, <<\h10107, \h10133>>, <<\h10140, \h10178>>, <<\h1018A, \h1018B>>,
    <<\h10280, \h1029C>>, <<\h102A0, \h102D0>>, <<\h102E1, \h102FB>>, <<\h10300, \h10323>>,
    <<\h1032D, \h1034A>>, <<\h10350, \h10375>>, <<\h10380, \h1039D>>, <<\h103A0, \h103C3>>,
    <<\h103C8, \h103CF>>, <<\h103D1, \h103D5>>, <<\h10400, \h1049D>>, <<\h104A0, \h104A9>>,
    <<\h104B0, \h104D3>>, <<\h104D8, \h104FB>>, <<\h10500, \h10527>>, <<\h10530, \h10563>>,
    <<\h10570, \h1057A>>, <<\h1057C, \h1058A>>, <<\h1058C, \h10592>>, <<\h10594, \h10595>>,
    <<\h10597, \h105A1>>, <<\h105A3, \h105B1>>, <<\h105B3, \h105B9>>, <<\h105BB, \h105BC>>,
    <<\h10600, \h10736>>, <<\h10740, \h10755>>, <<\h10760, \h10767>>, <<\h10780, \h10785>>,
    <<\h10787, \h107B0>>, <<\h107B2, \h107BA>>, <<\h10800, \h10805>>, <<\h10808, \h10808>>,
    <<\h1080A, \h10835>>, <<\h10837, \h10838>>, <<\h1083C, \h1083C>>, <<\h1083F, \h10855>>,
    <<\h10858, \h10876>>, <<\h10879, \h1089E>>, <<\h108A7, \h108AF>>, <<\h108E0, \h108F2>>,
    <<\h108F4, \h108F5>>, <<\h108FB, \h1091B>>, <<\h10920, \h10939>>, <<\h10980, \h109B7>>,
    <<\h109BC, \h109CF>>, <<\h109D2, \h10A00>>, <<\h10A10, \h10A13>>, <<\h10A15, \h10A17>>,
    <<\h10A19, \h10A35>>, <<\h10A40, \h10A48>>, <<\h10A60, \h10A7E>>, <<\h10A80, \h10A9F>>,
    <<\h10AC0, \h10AC7>>, <<\h10AC9, \h10AE4>>, <<\h10AEB, \h10AEF>>, <<\h10B00, \h10B35>>,
    <<\h10B40, \h10B55>>, <<\h10B58, \h10B72>>, <<\h10B78, \h10B91>>, <<\h10BA9, \h10BAF>>,
    <<\h10C00, \h10C48>>, <<\h10C80, \h10CB2>>, <<\h10CC0, \h10CF2>>, <<\h10CFA, \h10D23>>,
    <<\h10D30, \h10D39>>, <<\h10E60, \h10E7E>>, <<\h10E80, \h10EA9>>, <<\h10EB0, \h10EB1>>,
    <<\h10F00, \h10F27>>, <<\h10F30, \h10F45>>, <<\h10F51, \h10F54>>, <<\h10F70, \h10F81>>,
    <<\h10FB0, \h10FCB>>, <<\h10FE0, \h10FF6>>, <<\h11003, \h11037>>, <<\h11052, \h1106F>>,
    <<\h11071, \h11072>>, <<\h11075, \h11075>>, <<\h11083, \h110AF>>, <<\h110D0, \h110E8>>,
    <<\h110F0, \h110F9>>, <<\h11103, \h11126>>, <<\h11136, \h1113F>>, <<\h11144, \h11144>>,
    <<\h11147, \h11147>>, <<\h11150, \h11172>>, <<\h11176, \h11176>>, <<\h11183, \h111B2>>,
    <<\h111C1, \h111C4>>, <<\h111D0, \h111DA>>, <<\h111DC, \h111DC>>, <<\h111E1, \h111F4>>,
    <<\h11200, \h11211>>, <<\h11213, \h1122B>>, <<\h11280, \h11286>>, <<\h11288, \h11288>>,
    <<\h1128A, \h1128D>>, <<\h1128F, \h1129D>>, <<\h1129F, \h112A8>>, <<\h112B0, \h112DE>>,
    <<\h112F0, \h112F9>>, <<\h11305, \h1130C>>, <<\h1130F, \h11310>>, <<\h11313, \h11328>>,
    <<\h1132A, \h11330>>, <<\h11332, \h11333>>, <<\h11335, \h11339>>, <<\h1133D, \h1133D>>,
    <<\h11350, \h11350>>, <<\h1135D, \h11361>>, <<\h11400, \h11434>>, <<\h11447, \h1144A>>,
    <<\h11450, \h11459>>, <<\h1145F, \h11461>>, <<\h11480, \h114AF>>, <<\h114C4, \h114C5>>,
    <<\h114C7, \h114C7>>, <<\h114D0, \h114D9>>, <<\h11580, \h115AE>>, <<\h115D8, \h115DB>>,
    <<\h11600, \h1162F>>, <<\h11644, \h11644>>, <<\h11650, \h11659>>, <<\h11680, \h116AA>>,
    <<\h116B8, \h116B8>>, <<\h116C0, \h116C9>>, <<\h11700, \h1171A>>, <<\h11730, \h1173B>>,
    <<\h11740, \h11746>>, <<\h11800, \h1182B>>, <<\h118A0, \h118F2>>, <<\h118FF, \h11906>>,
    <<\h11909, \h11909>>, <<\h1190C, \h11913>>, <<\h11915, \h11916>>, <<\h11918, \h1192F>>,
    <<\h1193F, \h1193F>>, <<\h11941, \h11941>>, <<\h11950, \h11959>>, <<\h119A0, \h119A7>>,
    <<\h119AA, \h119D0>>, <<\h119E1, \h119E1>>, <<\h119E3, \h119E3>>, <<\h11A00, \h11A00>>,
    <<\h11A0B, \h11A32>>, <<\h11A3A, \h11A3A>>, <<\h11A50, \h11A50>>, <<\h11A5C, \h11A89>>,
    <<\h11A9D, \h11A9D>>, <<\h11AB0, \h11AF8>>, <<\h11C00, \h11C08>>, <<\h11C0A, \h11C2E>>,
    <<\h11C40, \h11C40>>, <<\h11C50, \h11C6C>>, <<\h11C72, \h11C8F>>, <<\h11D00, \h11D06>>,
    <<\h11D08, \h11D09>>, <<\h11D0B, \h11D30>>, <<\h11D46, \h11D46>>, <<\h11D50, \h11D59>>,
    <<\h11D60, \h11D65>>, <<\h11D67, \h11D68>>, <<\h11D6A, \h11D89>>, <<\h11D98, \h11D98>>,
    <<\h11DA0, \h11DA9>>, <<\h11EE0, \h11EF2>>, <<\h11FB0, \h11FB0>>, <<\h11FC0, \h11FD4>>,
    <<\h12000, \h12399>>, <<\h12400, \h1246E>>, <<\h12480, \h12543>>, <<\h12F90, \h12FF0>>,
    <<\h13000, \h1342E>>, <<\h14400, \h14646>>, <<\h16800, \h16A38>>, <<\h16A40, \h16A5E>>,
    <<\h16A60, \h16A69>>, <<\h16A70, \h16ABE>>, <<\h16AC0, \h16AC9>>, <<\h16AD0, \h16AED>>,
    <<\h16B00, \h16B2F>>, <<\h16B40, \h16B43>>, <<\h16B50, \h16B59>>, <<\h16B5B, \h16B61>>,
    <<\h16B63, \h16B77>>, <<\h16B7D, \h16B8F>>, <<\h16E40, \h16E96>>, <<\h16F00, \h16F4A>>,
    <<\h16F50, \h16F50>>, <<\h16F93, \h16F9F>>, <<\h16FE0, \h16FE1>>, <<\h16FE3, \h16FE3>>,
    <<\h17000, \h187F7>>, <<\h18800, \h18CD5>>, <<\h18D00, \h18D08>>, <<\h1AFF0, \h1AFF3>>,
    <<\h1AFF5, \h1AFFB>>, <<\h1AFFD, \h1AFFE>>, <<\h1B000, \h1B122>>, <<\h1B150, \h1B152>>,
    <<\h1B164, \h1B167>>, <<\h1B170, \h1B2FB>>, <<\h1BC00, \h1BC6A>>, <<\h1BC70, \h1BC7C>>,
    <<\h1BC80, \h1BC88>>, <<\h1BC90, \h1BC99>>, <<\h1D2E0, \h1D2F3>>, <<\h1D360, \h1D378>>,
    <<\h1D400, \h1D454>>, <<\h1D456, \h1D49C>>, <<\h1D49E, \h1D49F>>, <<\h1D4A2, \h1D4A2>>,
    <<\h1D4A5, \h1D4A6>>, <<\h1D4A9, \h1D4AC>>, <<\h1D4AE, \h1D4B9>>, <<\h1D4BB, \h1D4BB>>,
    <<\h1D4BD, \h1D4C3>>, <<\h1D4C5, \h1D505>>, <<\h1D507, \h1D50A>>, <<\h1D50D, \h1D514>>,
    <<\h1D516, \h1D51C>>, <<\h1D51E, \h1D539>>, <<\h1D53B, \h1D53E>>, <<\h1D540, \h1D544>>,
    <<\h1D546, \h1D546>>, <<\h1D54A, \h1D550>>, <<\h1D552, \h1D6A5>>, <<\h1D6A8, \h1D6C0>>,
    <<\h1D6C2, \h1D6DA>>, <<\h1D6DC, \h1D6FA>>, <<\h1D6FC, \h1D714>>, <<\h1D716, \h1D734>>,
    <<\h1D736, \h1D74E>>, <<\h1D750, \h1D76E>>, <<\h1D770, \h1D788>>, <<\h1D78A, \h1D7A8>>,
    <<\h1D7AA, \h1D7C2>>, <<\h1D7C4, \h1D7CB>>, <<\h1D7CE, \h1D7FF>>, <<\h1DF00, \h1DF1E>>,
    <<\h1E100, \h1E12C>>, <<\h1E137, \h1E13D>>, <<\h1E140, \h1E149>>, <<\h1E14E, \h1E14E>>,
    <<\h1E290, \h1E2AD>>, <<\h1E2C0, \h1E2EB>>, <<\h1E2F0, \h1E2F9>>, <<\h1E7E0, \h1E7E6>>,
    <<\h1E7E8, \h1E7EB>>, <<\h1E7ED, \h1E7EE>>, <<\h1E7F0, \h1E7FE>>, <<\h1E800, \h1E8C4>>,
    <<\h1E8C7, \h1E8CF>>, <<\h1E900, \h1E943>>, <<\h1E94B, \h1E94B>>, <<\h1E950, \h1E959>>,
    <<\h1EC71, \h1ECAB>>, <<\h1ECAD, \h1ECAF>>, <<\h1ECB1, \h1ECB4>>, <<\h1ED01, \h1ED2D>>,
    <<\h1ED2F, \h1ED3D>>, <<\h1EE00, \h1EE03>>, <<\h1EE05, \h1EE1F>>, <<\h1EE21, \h1EE22>>,
    <<\h1EE24, \h1EE24>>, <<\h1EE27, \h1EE27>>, <<\h1EE29, \h1EE32>>, <<\h1EE34, \h1EE37>>,
    <<\h1EE39, \h1EE39>>, <<\h1EE3B, \h1EE3B>>, <<\h1EE42, \h1EE42>>, <<\h1EE47, \h1EE47>>,
    <<\h1EE49, \h1EE49>>, <<\h1EE4B, \h1EE4B>>, <<\h1EE4D, \h1EE4F>>, <<\h1EE51, \h1EE52>>,
    <<\h1EE54, \h1EE54>>, <<\h1EE57, \h1EE57>>, <<\h1EE59, \h1EE59>>, <<\h1EE5B, \h1EE5B>>,
    <<\h1EE5D, \h1EE5D>>, <<\h1EE5F, \h1EE5F>>, <<\h1EE61, \h1EE62>>, <<\h1EE64, \h1EE64>>,
    <<\h1EE67, \h1EE6A>>, <<\h1EE6C, \h1EE72>>, <<\h1EE74, \h1EE77>>, <<\h1EE79, \h1EE7C>>,
    <<\h1EE7E, \h1EE7E>>, <<\h1EE80, \h1EE89>>, <<\h1EE8B, \h1EE9B>>, <<\h1EEA1, \h1EEA3>>,
    <<\h1EEA5, \h1EEA9>>, <<\h1EEAB, \h1EEBB>>, <<\h1F100, \h1F10C>>, <<\h1FBF0, \h1FBF9>>,
    <<\h20000, \h2A6DF>>, <<\h2A700, \h2B738>>, <<\h2B740, \h2B81D>>, <<\h2B820, \h2CEA1>>,
    <<\h2CEB0, \h2EBE0>>, <<\h2F800, \h2FA1D>>, <<\h30000, \h3134A>>}
WordCharsBeyondAscii == WordCharsLatin1 \cup CharsOf(WordRanges)

\* \w
WordChars == AlnumChars \cup {"_"} \cup WordCharsBeyondAscii
IsWord(c) == c \in WordChars

\* \s, and the characters str.strip() removes: U+0009..U+000D, U+001C..U+0020,
\* U+0085, U+00A0 and the space characters beyond U+00FF
SpaceChars ==
   {"\t", "\n", "", "\f", "\r", "", "", "", "", " ", "", " ", "U+1680", "U+2000",
    "U+2001", "U+2002", "U+2003", "U+2004", "U+2005", "U+2006", "U+2007", "U+2008", "U+2009",
    "U+200A", "U+2028", "U+2029", "U+202F", "U+205F", "U+3000"}

\* the characters beyond A-Z that str.lower() changes, and what it makes of each
LowerFrom ==
  <<"À", "Á", "Â", "Ã", "Ä", "Å", "Æ", "Ç", "È", "É", "Ê", "Ë", "Ì", "Í", "Î", "Ï", "Ð", "Ñ",
    "Ò", "Ó", "Ô", "Õ", "Ö", "Ø", "Ù", "Ú", "Û", "Ü", "Ý", "Þ", "U+0100", "U+0102", "U+0104",
    "U+0106", "U+0108", "U+010A", "U+010C", "U+010E", "U+0110", "U+0112", "U+0114", "U+0116",
    "U+0118", "U+011A", "U+011C", "U+011E", "U+0120", "U+0122", "U+0124", "U+0126", "U+0128",
    "U+012A", "U+012C", "U+012E", "U+0130", "U+0132", "U+0134", "U+0136", "U+0139", "U+013B",
    "U+013D", "U+013F", "U+0141", "U+0143", "U+0145", "U+0147", "U+014A", "U+014C", "U+014E",
    "U+0150", "U+0152", "U+0154", "U+0156", "U+0158", "U+015A", "U+015C", "U+015E", "U+0160",
    "U+0162", "U+0164", "U+0166", "U+0168", "U+016A", "U+016C", "U+016E", "U+0170", "U+0172",
    "U+0174", "U+0176", "U+0178", "U+0179", "U+017B", "U+017D", "U+0181", "U+0182", "U+0184",
    "U+0186", "U+0187", "U+0189", "U+018A", "U+018B", "U+018E", "U+018F", "U+0190", "U+0191",
    "U+0193", "U+0194", "U+0196", "U+0197", "U+0198", "U+019C", "U+019D", "U+019F", "U+01A0",
    "U+01A2", "U+01A4", "U+01A6", "U+01A7", "U+01A9", "U+01AC", "U+01AE", "U+01AF", "U+01B1",
    "U+01B2", "U+01B3", "U+01B5", "U+01B7", "U+01B8", "U+01BC", "U+01C4", "U+01C5", "U+01C7",
    "U+01C8", "U+01CA", "U+01CB", "U+01CD", "U+01CF", "U+01D1", "U+01D3", "U+01D5", "U+01D7",
    "U+01D9", "U+01DB", "U+01DE", "U+01E0", "U+01E2", "U+01E4", "U+01E6", "U+01E8", "U+01EA",
    "U+01EC", "U+01EE", "U+01F1", "U+01F2", "U+01F4", "U+01F6", "U+01F7", "U+01F8", "U+01FA",
    "U+01FC", "U+01FE", "U+0200", "U+0202", "U+0204", "U+0206", "U+0208", "U+020A", "U+020C",
    "U+020E", "U+0210", "U+0212", "U+0214", "U+0216", "U+0218", "U+021A", "U+021C", "U+021E",
    "U+0220", "U+0222", "U+0224", "U+0226", "U+0228", "U+022A", "U+022C", "U+022E", "U+0230",
    "U+0232", "U+023A", "U+023B", "U+023D", "U+023E", "U+0241", "U+0243", "U+0244", "U+0245",
    "U+0246", "U+0248", "U+024A", "U+024C", "U+024E", "U+0370", "U+0372", "U+0376", "U+037F",
    "U+0386", "U+0388", "U+0389", "U+038A", "U+038C", "U+038E", "U+038F", "U+0391", "U+0392",
    "U+0393", "U+0394", "U+0395", "U+0396", "U+0397", "U+0398", "U+0399", "U+039A", "U+039B",
    "U+039C", "U+039D", "U+039E", "U+039F", "U+03A0", "U+03A1", "U+03A3", "U+03A4", "U+03A5",
    "U+03A6", "U+03A7", "U+03A8", "U+03A9", "U+03AA", "U+03AB", "U+03CF", "U+03D8", "U+03DA",
    "U+03DC", "U+03DE", "U+03E0", "U+03E2", "U+03E4", "U+03E6", "U+03E8", "U+03EA", "U+03EC",
    "U+03EE", "U+03F4", "U+03F7", "U+03F9", "U+03FA", "U+03FD", "U+03FE", "U+03FF", "U+0400",
    "U+0401", "U+0402", "U+0403", "U+0404", "U+0405", "U+0406", "U+0407", "U+0408", "U+0409",
    "U+040A", "U+040B", "U+040C", "U+040D", "U+040E", "U+040F", "U+0410", "U+0411", "U+0412",
    "U+0413", "U+0414", "U+0415", "U+0416", "U+0417", "U+0418", "U+0419", "U+041A", "U+041B",
    "U+041C", "U+041D", "U+041E", "U+041F", "U+0420", "U+0421", "U+0422", "U+0423", "U+0424",
    "U+0425", "U+0426", "U+0427", "U+0428", "U+0429", "U+042A", "U+042B", "U+042C", "U+042D",
    "U+042E", "U+042F", "U+0460", "U+0462", "U+0464", "U+0466", "U+0468", "U+046A", "U+046C",
    "U+046E", "U+0470", "U+0472", "U+0474", "U+0476", "U+0478", "U+047A", "U+047C", "U+047E",
    "U+0480", "U+048A", "U+048C", "U+048E", "U+0490", "U+0492", "U+0494", "U+0496", "U+0498",
    "U+049A", "U+049C", "U+049E", "U+04A0", "U+04A2", "U+04A4", "U+04A6", "U+04A8", "U+04AA",
    "U+04AC", "U+04AE", "U+04B0", "U+04B2", "U+04B4", "U+04B6", "U+04B8", "U+04BA", "U+04BC",
    "U+04BE", "U+04C0", "U+04C1", "U+04C3", "U+04C5", "U+04C7", "U+04C9", "U+04CB", "U+04CD",
    "U+04D0", "U+04D2", "U+04D4", "U+04D6", "U+04D8", "U+04DA", "U+04DC", "U+04DE", "U+04E0",
    "U+04E2", "U+04E4", "U+04E6", "U+04E8", "U+04EA", "U+04EC", "U+04EE", "U+04F0", "U+04F2",
    "U+04F4", "U+04F6", "U+04F8", "U+04FA", "U+04FC", "U+04FE", "U+0500", "U+0502", "U+0504",
    "U+0506", "U+0508", "U+050A", "U+050C", "U+050E", "U+0510", "U+0512", "U+0514", "U+0516",
    "U+0518", "U+051A", "U+051C", "U+051E", "U+0520", "U+0522", "U+0524", "U+0526", "U+0528",
    "U+052A", "U+052C", "U+052E", "U+0531", "U+0532", "U+0533", "U+0534", "U+0535", "U+0536",
    "U+0537", "U+0538", "U+0539", "U+053A", "U+053B", "U+053C", "U+053D", "U+053E", "U+053F",
    "U+0540", "U+0541", "U+0542", "U+0543", "U+0544", "U+0545", "U+0546", "U+0547", "U+0548",
    "U+0549", "U+054A", "U+054B", "U+054C", "U+054D", "U+054E", "U+054F", "U+0550", "U+0551",
    "U+0552", "U+0553", "U+0554", "U+0555", "U+0556", "U+10A0", "U+10A1", "U+10A2", "U+10A3",
    "U+10A4", "U+10A5", "U+10A6", "U+10A7", "U+10A8", "U+10A9", "U+10AA", "U+10AB", "U+10AC",
    "U+10AD", "U+10AE", "U+10AF", "U+10B0", "U+10B1", "U+10B2", "U+10B3", "U+10B4", "U+10B5",
    "U+10B6", "U+10B7", "U+10B8", "U+10B9", "U+10BA", "U+10BB", "U+10BC", "U+10BD", "U+10BE",
    "U+10BF", "U+10C0", "U+10C1", "U+10C2", "U+10C3", "U+10C4", "U+10C5", "U+10C7", "U+10CD",
    "U+13A0", "U+13A1", "U+13A2", "U+13A3", "U+13A4", "U+13A5", "U+13A6", "U+13A7", "U+13A8",
    "U+13A9", "U+13AA", "U+13AB", "U+13AC", "U+13AD", "U+13AE", "U+13AF", "U+13B0", "U+13B1",
    "U+13B2", "U+13B3", "U+13B4", "U+13B5", "U+13B6", "U+13B7", "U+13B8", "U+13B9", "U+13BA",
    "U+13BB", "U+13BC", "U+13BD", "U+13BE", "U+13BF", "U+13C0", "U+13C1", "U+13C2", "U+13C3",
    "U+13C4", "U+13C5", "U+13C6", "U+13C7", "U+13C8", "U+13C9", "U+13CA", "U+13CB", "U+13CC",
    "U+13CD", "U+13CE", "U+13CF", "U+13D0", "U+13D1", "U+13D2", "U+13D3", "U+13D4", "U+13D5",
    "U+13D6", "U+13D7", "U+13D8", "U+13D9", "U+13DA", "U+13DB", "U+13DC", "U+13DD", "U+13DE",
    "U+13DF", "U+13E0", "U+13E1", "U+13E2", "U+13E3", "U+13E4", "U+13E5", "U+13E6", "U+13E7",
    "U+13E8", "U+13E9", "U+13EA", "U+13EB", "U+13EC", "U+13ED", "U+13EE", "U+13EF", "U+13F0",
    "U+13F1", "U+13F2", "U+13F3", "U+13F4", "U+13F5", "U+1C90", "U+1C91", "U+1C92", "U+1C93",
    "U+1C94", "U+1C95", "U+1C96", "U+1C97", "U+1C98", "U+1C99", "U+1C9A", "U+1C9B", "U+1C9C",
    "U+1C9D", "U+1C9E", "U+1C9F", "U+1CA0", "U+1CA1", "U+1CA2", "U+1CA3", "U+1CA4", "U+1CA5",
    "U+1CA6", "U+1CA7", "U+1CA8", "U+1CA9", "U+1CAA", "U+1CAB", "U+1CAC", "U+1CAD", "U+1CAE",
    "U+1CAF", "U+1CB0", "U+1CB1", "U+1CB2", "U+1CB3", "U+1CB4", "U+1CB5", "U+1CB6", "U+1CB7",
    "U+1CB8", "U+1CB9", "U+1CBA", "U+1CBD", "U+1CBE", "U+1CBF", "U+1E00", "U+1E02", "U+1E04",
    "U+1E06", "U+1E08", "U+1E0A", "U+1E0C", "U+1E0E", "U+1E10", "U+1E12", "U+1E14", "U+1E16",
    "U+1E18", "U+1E1A", "U+1E1C", "U+1E1E", "U+1E20", "U+1E22", "U+1E24", "U+1E26", "U+1E28",
    "U+1E2A", "U+1E2C", "U+1E2E", "U+1E30", "U+1E32", "U+1E34", "U+1E36", "U+1E38", "U+1E3A",
    "U+1E3C", "U+1E3E", "U+1E40", "U+1E42", "U+1E44", "U+1E46", "U+1E48", "U+1E4A", "U+1E4C",
    "U+1E4E", "U+1E50", "U+1E52", "U+1E54", "U+1E56", "U+1E58", "U+1E5A", "U+1E5C", "U+1E5E",
    "U+1E60", "U+1E62", "U+1E64", "U+1E66", "U+1E68", "U+1E6A", "U+1E6C", "U+1E6E", "U+1E70",
    "U+1E72", "U+1E74", "U+1E76", "U+1E78", "U+1E7A", "U+1E7C", "U+1E7E", "U+1E80", "U+1E82",
    "U+1E84", "U+1E86", "U+1E88", "U+1E8A", "U+1E8C", "U+1E8E", "U+1E90", "U+1E92", "U+1E94",
    "U+1E9E", "U+1EA0", "U+1EA2", "U+1EA4", "U+1EA6", "U+1EA8", "U+1EAA", "U+1EAC", "U+1EAE",
    "U+1EB0", "U+1EB2", "U+1EB4", "U+1EB6", "U+1EB8", "U+1EBA", "U+1EBC", "U+1EBE", "U+1EC0",
    "U+1EC2", "U+1EC4", "U+1EC6", "U+1EC8", "U+1ECA", "U+1ECC", "U+1ECE", "U+1ED0", "U+1ED2",
    "U+1ED4", "U+1ED6", "U+1ED8", "U+1EDA", "U+1EDC", "U+1EDE", "U+1EE0", "U+1EE2", "U+1EE4",
    "U+1EE6", "U+1EE8", "U+1EEA", "U+1EEC", "U+1EEE", "U+1EF0", "U+1EF2", "U+1EF4", "U+1EF6",
    "U+1EF8", "U+1EFA", "U+1EFC", "U+1EFE", "U+1F08", "U+1F09", "U+1F0A", "U+1F0B", "U+1F0C",
    "U+1F0D", "U+1F0E", "U+1F0F", "U+1F18", "U+1F19", "U+1F1A", "U+1F1B", "U+1F1C", "U+1F1D",
    "U+1F28", "U+1F29", "U+1F2A", "U+1F2B", "U+1F2C", "U+1F2D", "U+1F2E", "U+1F2F", "U+1F38",
    "U+1F39", "U+1F3A", "U+1F3B", "U+1F3C", "U+1F3D", "U+1F3E", "U+1F3F", "U+1F48", "U+1F49",
    "U+1F4A", "U+1F4B", "U+1F4C", "U+1F4D", "U+1F59", "U+1F5B", "U+1F5D", "U+1F5F", "U+1F68",
    "U+1F69", "U+1F6A", "U+1F6B", "U+1F6C", "U+1F6D", "U+1F6E", "U+1F6F", "U+1F88", "U+1F89",
    "U+1F8A", "U+1F8B", "U+1F8C", "U+1F8D", "U+1F8E", "U+1F8F", "U+1F98", "U+1F99", "U+1F9A",
    "U+1F9B", "U+1F9C", "U+1F9D", "U+1F9E", "U+1F9F", "U+1FA8", "U+1FA9", "U+1FAA", "U+1FAB",
    "U+1FAC", "U+1FAD", "U+1FAE", "U+1FAF", "U+1FB8", "U+1FB9", "U+1FBA", "U+1FBB", "U+1FBC",
    "U+1FC8", "U+1FC9", "U+1FCA", "U+1FCB", "U+1FCC", "U+1FD8", "U+1FD9", "U+1FDA", "U+1FDB",
    "U+1FE8", "U+1FE9", "U+1FEA", "U+1FEB", "U+1FEC", "U+1FF8", "U+1FF9", "U+1FFA", "U+1FFB",
    "U+1FFC", "U+2126", "U+212A", "U+212B", "U+2132", "U+2160", "U+2161", "U+2162", "U+2163",
    "U+2164", "U+2165", "U+2166", "U+2167", "U+2168", "U+2169", "U+216A", "U+216B", "U+216C",
    "U+216D", "U+216E", "U+216F", "U+2183", "U+24B6", "U+24B7", "U+24B8", "U+24B9", "U+24BA",
    "U+24BB", "U+24BC", "U+24BD", "U+24BE", "U+24BF", "U+24C0", "U+24C1", "U+24C2", "U+24C3",
    "U+24C4", "U+24C5", "U+24C6", "U+24C7", "U+24C8", "U+24C9", "U+24CA", "U+24CB", "U+24CC",
    "U+24CD", "U+24CE", "U+24CF", "U+2C00", "U+2C01", "U+2C02", "U+2C03", "U+2C04", "U+2C05",
    "U+2C06", "U+2C07", "U+2C08", "U+2C09", "U+2C0A", "U+2C0B", "U+2C0C", "U+2C0D", "U+2C0E",
    "U+2C0F", "U+2C10", "U+2C11", "U+2C12", "U+2C13", "U+2C14", "U+2C15", "U+2C16", "U+2C17",
    "U+2C18", "U+2C19", "U+2C1A", "U+2C1B", "U+2C1C", "U+2C1D", "U+2C1E", "U+2C1F", "U+2C20",
    "U+2C21", "U+2C22", "U+2C23", "U+2C24", "U+2C25", "U+2C26", "U+2C27", "U+2C28", "U+2C29",
    "U+2C2A", "U+2C2B", "U+2C2C", "U+2C2D", "U+2C2E", "U+2C2F", "U+2C60", "U+2C62", "U+2C63",
    "U+2C64", "U+2C67", "U+2C69", "U+2C6B", "U+2C6D", "U+2C6E", "U+2C6F", "U+2C70", "U+2C72",
    "U+2C75", "U+2C7E", "U+2C7F", "U+2C80", "U+2C82", "U+2C84", "U+2C86", "U+2C88", "U+2C8A",
    "U+2C8C", "U+2C8E", "U+2C90", "U+2C92", "U+2C94", "U+2C96", "U+2C98", "U+2C9A", "U+2C9C",
    "U+2C9E", "U+2CA0", "U+2CA2", "U+2CA4", "U+2CA6", "U+2CA8", "U+2CAA", "U+2CAC", "U+2CAE",
    "U+2CB0", "U+2CB2", "U+2CB4", "U+2CB6", "U+2CB8", "U+2CBA", "U+2CBC", "U+2CBE", "U+2CC0",
    "U+2CC2", "U+2CC4", "U+2CC6", "U+2CC8", "U+2CCA", "U+2CCC", "U+2CCE", "U+2CD0", "U+2CD2",
    "U+2CD4", "U+2CD6", "U+2CD8", "U+2CDA", "U+2CDC", "U+2CDE", "U+2CE0", "U+2CE2", "U+2CEB",
    "U+2CED", "U+2CF2", "U+A640", "U+A642", "U+A644", "U+A646", "U+A648", "U+A64A", "U+A64C",
    "U+A64E", "U+A650", "U+A652", "U+A654", "U+A656", "U+A658", "U+A65A", "U+A65C", "U+A65E",
    "U+A660", "U+A662", "U+A664", "U+A666", "U+A668", "U+A66A", "U+A66C", "U+A680", "U+A682",
    "U+A684", "U+A686", "U+A688", "U+A68A", "U+A68C", "U+A68E", "U+A690", "U+A692", "U+A694",
    "U+A696", "U+A698", "U+A69A", "U+A722", "U+A724", "U+A726", "U+A728", "U+A72A", "U+A72C",
    "U+A72E", "U+A732", "U+A734", "U+A736", "U+A738", "U+A73A", "U+A73C", "U+A73E", "U+A740",
    "U+A742", "U+A744", "U+A746", "U+A748", "U+A74A", "U+A74C", "U+A74E", "U+A750", "U+A752",
    "U+A754", "U+A756", "U+A758", "U+A75A", "U+A75C", "U+A75E", "U+A760", "U+A762", "U+A764",
    "U+A766", "U+A768", "U+A76A", "U+A76C", "U+A76E", "U+A779", "U+A77B", "U+A77D", "U+A77E",
    "U+A780", "U+A782", "U+A784", "U+A786", "U+A78B", "U+A78D", "U+A790", "U+A792", "U+A796",
    "U+A798", "U+A79A", "U+A79C", "U+A79E", "U+A7A0", "U+A7A2", "U+A7A4", "U+A7A6", "U+A7A8",
    "U+A7AA", "U+A7AB", "U+A7AC", "U+A7AD", "U+A7AE", "U+A7B0", "U+A7B1", "U+A7B2", "U+A7B3",
    "U+A7B4", "U+A7B6", "U+A7B8", "U+A7BA", "U+A7BC", "U+A7BE", "U+A7C0", "U+A7C2", "U+A7C4",
    "U+A7C5", "U+A7C6", "U+A7C7", "U+A7C9", "U+A7D0", "U+A7D6", "U+A7D8", "U+A7F5", "U+FF21",
    "U+FF22", "U+FF23", "U+FF24", "U+FF25", "U+FF26", "U+FF27", "U+FF28", "U+FF29", "U+FF2A",
    "U+FF2B", "U+FF2C", "U+FF2D", "U+FF2E", "U+FF2F", "U+FF30", "U+FF31", "U+FF32", "U+FF33",
    "U+FF34", "U+FF35", "U+FF36", "U+FF37", "U+FF38", "U+FF39", "U+FF3A", "U+10400", "U+10401",
    "U+10402", "U+10403", "U+10404", "U+10405", "U+10406", "U+10407", "U+10408", "U+10409",
    "U+1040A", "U+1040B", "U+1040C", "U+1040D", "U+1040E", "U+1040F", "U+10410", "U+10411",
    "U+10412", "U+10413", "U+10414", "U+10415", "U+10416", "U+10417", "U+10418", "U+10419",
    "U+1041A", "U+1041B", "U+1041C", "U+1041D", "U+1041E", "U+1041F", "U+10420", "U+10421",
    "U+10422", "U+10423", "U+10424", "U+10425", "U+10426", "U+10427", "U+104B0", "U+104B1",
    "U+104B2", "U+104B3", "U+104B4", "U+104B5", "U+104B6", "U+104B7", "U+104B8", "U+104B9",
    "U+104BA", "U+104BB", "U+104BC", "U+104BD", "U+104BE", "U+104BF", "U+104C0", "U+104C1",
    "U+104C2", "U+104C3", "U+104C4", "U+104C5", "U+104C6", "U+104C7", "U+104C8", "U+104C9",
    "U+104CA", "U+104CB", "U+104CC", "U+104CD", "U+104CE", "U+104CF", "U+104D0", "U+104D1",
    "U+104D2", "U+104D3", "U+10570", "U+10571", "U+10572", "U+10573", "U+10574", "U+10575",
    "U+10576", "U+10577", "U+10578", "U+10579", "U+1057A", "U+1057C", "U+1057D", "U+1057E",
    "U+1057F", "U+10580", "U+10581", "U+10582", "U+10583", "U+10584", "U+10585", "U+10586",
    "U+10587", "U+10588", "U+10589", "U+1058A", "U+1058C", "U+1058D", "U+1058E", "U+1058F",
    "U+10590", "U+10591", "U+10592", "U+10594", "U+10595", "U+10C80", "U+10C81", "U+10C82",
    "U+10C83", "U+10C84", "U+10C85", "U+10C86", "U+10C87", "U+10C88", "U+10C89", "U+10C8A",
    "U+10C8B", "U+10C8C", "U+10C8D", "U+10C8E", "U+10C8F", "U+10C90", "U+10C91", "U+10C92",
    "U+10C93", "U+10C94", "U+10C95", "U+10C96", "U+10C97", "U+10C98", "U+10C99", "U+10C9A",
    "U+10C9B", "U+10C9C", "U+10C9D", "U+10C9E", "U+10C9F", "U+10CA0", "U+10CA1", "U+10CA2",
    "U+10CA3", "U+10CA4", "U+10CA5", "U+10CA6", "U+10CA7", "U+10CA8", "U+10CA9", "U+10CAA",
    "U+10CAB", "U+10CAC", "U+10CAD", "U+10CAE", "U+10CAF", "U+10CB0", "U+10CB1", "U+10CB2",
    "U+118A0", "U+118A1", "U+118A2", "U+118A3", "U+118A4", "U+118A5", "U+118A6", "U+118A7",
    "U+118A8", "U+118A9", "U+118AA", "U+118AB", "U+118AC", "U+118AD", "U+118AE", "U+118AF",
    "U+118B0", "U+118B1", "U+118B2", "U+118B3", "U+118B4", "U+118B5", "U+118B6", "U+118B7",
    "U+118B8", "U+118B9", "U+118BA", "U+118BB", "U+118BC", "U+118BD", "U+118BE", "U+118BF",
    "U+16E40", "U+16E41", "U+16E42", "U+16E43", "U+16E44", "U+16E45", "U+16E46", "U+16E47",
    "U+16E48", "U+16E49", "U+16E4A", "U+16E4B", "U+16E4C", "U+16E4D", "U+16E4E", "U+16E4F",
    "U+16E50", "U+16E51", "U+16E52", "U+16E53", "U+16E54", "U+16E55", "U+16E56", "U+16E57",
    "U+16E58", "U+16E59", "U+16E5A", "U+16E5B", "U+16E5C", "U+16E5D", "U+16E5E", "U+16E5F",
    "U+1E900", "U+1E901", "U+1E902", "U+1E903", "U+1E904", "U+1E905", "U+1E906", "U+1E907",
    "U+1E908", "U+1E909", "U+1E90A", "U+1E90B", "U+1E90C", "U+1E90D", "U+1E90E", "U+1E90F",
    "U+1E910", "U+1E911", "U+1E912", "U+1E913", "U+1E914", "U+1E915", "U+1E916", "U+1E917",
    "U+1E918", "U+1E919", "U+1E91A", "U+1E91B", "U+1E91C", "U+1E91D", "U+1E91E", "U+1E91F",
    "U+1E920", "U+1E921">>
LowerTo ==
  <<<<"à">>, <<"á">>, <<"â">>, <<"ã">>, <<"ä">>, <<"å">>, <<"æ">>, <<"ç">>, <<"è">>, <<"é">>,
    <<"ê">>, <<"ë">>, <<"ì">>, <<"í">>, <<"î">>, <<"ï">>, <<"ð">>, <<"ñ">>, <<"ò">>, <<"ó">>,
    <<"ô">>, <<"õ">>, <<"ö">>, <<"ø">>, <<"ù">>, <<"ú">>, <<"û">>, <<"ü">>, <<"ý">>, <<"þ">>,
    <<"U+0101">>, <<"U+0103">>, <<"U+0105">>, <<"U+0107">>, <<"U+0109">>, <<"U+010B">>,
    <<"U+010D">>, <<"U+010F">>, <<"U+0111">>, <<"U+0113">>, <<"U+0115">>, <<"U+0117">>,
    <<"U+0119">>, <<"U+011B">>, <<"U+011D">>, <<"U+011F">>, <<"U+0121">>, <<"U+0123">>,
    <<"U+0125">>, <<"U+0127">>, <<"U+0129">>, <<"U+012B">>, <<"U+012D">>, <<"U+012F">>,
    <<"i","U+0307">>, <<"U+0133">>, <<"U+0135">>, <<"U+0137">>, <<"U+013A">>, <<"U+013C">>,
    <<"U+013E">>, <<"U+0140">>, <<"U+0142">>, <<"U+0144">>, <<"U+0146">>, <<"U+0148">>,
    <<"U+014B">>, <<"U+014D">>, <<"U+014F">>, <<"U+0151">>, <<"U+0153">>, <<"U+0155">>,
    <<"U+0157">>, <<"U+0159">>, <<"U+015B">>, <<"U+015D">>, <<"U+015F">>, <<"U+0161">>,
    <<"U+0163">>, <<"U+0165">>, <<"U+0167">>, <<"U+0169">>, <<"U+016B">>, <<"U+016D">>,
    <<"U+016F">>, <<"U+0171">>, <<"U+0173">>, <<"U+0175">>, <<"U+0177">>, <<"ÿ">>, <<"U+017A">>,
    <<"U+017C">>, <<"U+017E">>, <<"U+0253">>, <<"U+0183">>, <<"U+0185">>, <<"U+0254">>,
    <<"U+0188">>, <<"U+0256">>, <<"U+0257">>, <<"U+018C">>, <<"U+01DD">>, <<"U+0259">>,
    <<"U+025B">>, <<"U+0192">>, <<"U+0260">>, <<"U+0263">>, <<"U+0269">>, <<"U+0268">>,
    <<"U+0199">>, <<"U+026F">>, <<"U+0272">>, <<"U+0275">>, <<"U+01A1">>, <<"U+01A3">>,
    <<"U+01A5">>, <<"U+0280">>, <<"U+01A8">>, <<"U+0283">>, <<"U+01AD">>, <<"U+0288">>,
    <<"U+01B0">>, <<"U+028A">>, <<"U+028B">>, <<"U+01B4">>, <<"U+01B6">>, <<"U+0292">>,
    <<"U+01B9">>, <<"U+01BD">>, <<"U+01C6">>, <<"U+01C6">>, <<"U+01C9">>, <<"U+01C9">>,
    <<"U+01CC">>, <<"U+01CC">>, <<"U+01CE">>, <<"U+01D0">>, <<"U+01D2">>, <<"U+01D4">>,
    <<"U+01D6">>, <<"U+01D8">>, <<"U+01DA">>, <<"U+01DC">>, <<"U+01DF">>, <<"U+01E1">>,
    <<"U+01E3">>, <<"U+01E5">>, <<"U+01E7">>, <<"U+01E9">>, <<"U+01EB">>, <<"U+01ED">>,
    <<"U+01EF">>, <<"U+01F3">>, <<"U+01F3">>, <<"U+01F5">>, <<"U+0195">>, <<"U+01BF">>,
    <<"U+01F9">>, <<"U+01FB">>, <<"U+01FD">>, <<"U+01FF">>, <<"U+0201">>, <<"U+0203">>,
    <<"U+0205">>, <<"U+0207">>, <<"U+0209">>, <<"U+020B">>, <<"U+020D">>, <<"U+020F">>,
    <<"U+0211">>, <<"U+0213">>, <<"U+0215">>, <<"U+0217">>, <<"U+0219">>, <<"U+021B">>,
    <<"U+021D">>, <<"U+021F">>, <<"U+019E">>, <<"U+0223">>, <<"U+0225">>, <<"U+0227">>,
    <<"U+0229">>, <<"U+022B">>, <<"U+022D">>, <<"U+022F">>, <<"U+0231">>, <<"U+0233">>,
    <<"U+2C65">>, <<"U+023C">>, <<"U+019A">>, <<"U+2C66">>, <<"U+0242">>, <<"U+0180">>,
    <<"U+0289">>, <<"U+028C">>, <<"U+0247">>, <<"U+0249">>, <<"U+024B">>, <<"U+024D">>,
    <<"U+024F">>, <<"U+0371">>, <<"U+0373">>, <<"U+0377">>, <<"U+03F3">>, <<"U+03AC">>,
    <<"U+03AD">>, <<"U+03AE">>, <<"U+03AF">>, <<"U+03CC">>, <<"U+03CD">>, <<"U+03CE">>,
    <<"U+03B1">>, <<"U+03B2">>, <<"U+03B3">>, <<"U+03B4">>, <<"U+03B5">>, <<"U+03B6">>,
    <<"U+03B7">>, <<"U+03B8">>, <<"U+03B9">>, <<"U+03BA">>, <<"U+03BB">>, <<"U+03BC">>,
    <<"U+03BD">>, <<"U+03BE">>, <<"U+03BF">>, <<"U+03C0">>, <<"U+03C1">>, <<"U+03C3">>,
    <<"U+03C4">>, <<"U+03C5">>, <<"U+03C6">>, <<"U+03C7">>, <<"U+03C8">>, <<"U+03C9">>,
    <<"U+03CA">>, <<"U+03CB">>, <<"U+03D7">>, <<"U+03D9">>, <<"U+03DB">>, <<"U+03DD">>,
    <<"U+03DF">>, <<"U+03E1">>, <<"U+03E3">>, <<"U+03E5">>, <<"U+03E7">>, <<"U+03E9">>,
    <<"U+03EB">>, <<"U+03ED">>, <<"U+03EF">>, <<"U+03B8">>, <<"U+03F8">>, <<"U+03F2">>,
    <<"U+03FB">>, <<"U+037B">>, <<"U+037C">>, <<"U+037D">>, <<"U+0450">>, <<"U+0451">>,
    <<"U+0452">>, <<"U+0453">>, <<"U+0454">>, <<"U+0455">>, <<"U+0456">>, <<"U+0457">>,
    <<"U+0458">>, <<"U+0459">>, <<"U+045A">>, <<"U+045B">>, <<"U+045C">>, <<"U+045D">>,
    <<"U+045E">>, <<"U+045F">>, <<"U+0430">>, <<"U+0431">>, <<"U+0432">>, <<"U+0433">>,
    <<"U+0434">>, <<"U+0435">>, <<"U+0436">>, <<"U+0437">>, <<"U+0438">>, <<"U+0439">>,
    <<"U+043A">>, <<"U+043B">>, <<"U+043C">>, <<"U+043D">>, <<"U+043E">>, <<"U+043F">>,
    <<"U+0440">>, <<"U+0441">>, <<"U+0442">>, <<"U+0443">>, <<"U+0444">>, <<"U+0445">>,
    <<"U+0446">>, <<"U+0447">>, <<"U+0448">>, <<"U+0449">>, <<"U+044A">>, <<"U+044B">>,
    <<"U+044C">>, <<"U+044D">>, <<"U+044E">>, <<"U+044F">>, <<"U+0461">>, <<"U+0463">>,
    <<"U+0465">>, <<"U+0467">>, <<"U+0469">>, <<"U+046B">>, <<"U+046D">>, <<"U+046F">>,
    <<"U+0471">>, <<"U+0473">>, <<"U+0475">>, <<"U+0477">>, <<"U+0479">>, <<"U+047B">>,
    <<"U+047D">>, <<"U+047F">>, <<"U+0481">>, <<"U+048B">>, <<"U+048D">>, <<"U+048F">>,
    <<"U+0491">>, <<"U+0493">>, <<"U+0495">>, <<"U+0497">>, <<"U+0499">>, <<"U+049B">>,
    <<"U+049D">>, <<"U+049F">>, <<"U+04A1">>, <<"U+04A3">>, <<"U+04A5">>, <<"U+04A7">>,
    <<"U+04A9">>, <<"U+04AB">>, <<"U+04AD">>, <<"U+04AF">>, <<"U+04B1">>, <<"U+04B3">>,
    <<"U+04B5">>, <<"U+04B7">>, <<"U+04B9">>, <<"U+04BB">>, <<"U+04BD">>, <<"U+04BF">>,
    <<"U+04CF">>, <<"U+04C2">>, <<"U+04C4">>, <<"U+04C6">>, <<"U+04C8">>, <<"U+04CA">>,
    <<"U+04CC">>, <<"U+04CE">>, <<"U+04D1">>, <<"U+04D3">>, <<"U+04D5">>, <<"U+04D7">>,
    <<"U+04D9">>, <<"U+04DB">>, <<"U+04DD">>, <<"U+04DF">>, <<"U+04E1">>, <<"U+04E3">>,
    <<"U+04E5">>, <<"U+04E7">>, <<"U+04E9">>, <<"U+04EB">>, <<"U+04ED">>, <<"U+04EF">>,
    <<"U+04F1">>, <<"U+04F3">>, <<"U+04F5">>, <<"U+04F7">>, <<"U+04F9">>, <<"U+04FB">>,
    <<"U+04FD">>, <<"U+04FF">>, <<"U+0501">>, <<"U+0503">>, <<"U+0505">>, <<"U+0507">>,
    <<"U+0509">>, <<"U+050B">>, <<"U+050D">>, <<"U+050F">>, <<"U+0511">>, <<"U+0513">>,
    <<"U+0515">>, <<"U+0517">>, <<"U+0519">>, <<"U+051B">>, <<"U+051D">>, <<"U+051F">>,
    <<"U+0521">>, <<"U+0523">>, <<"U+0525">>, <<"U+0527">>, <<"U+0529">>, <<"U+052B">>,
    <<"U+052D">>, <<"U+052F">>, <<"U+0561">>, <<"U+0562">>, <<"U+0563">>, <<"U+0564">>,
    <<"U+0565">>, <<"U+0566">>, <<"U+0567">>, <<"U+0568">>, <<"U+0569">>, <<"U+056A">>,
    <<"U+056B">>, <<"U+056C">>, <<"U+056D">>, <<"U+056E">>, <<"U+056F">>, <<"U+0570">>,
    <<"U+0571">>, <<"U+0572">>, <<"U+0573">>, <<"U+0574">>, <<"U+0575">>, <<"U+0576">>,
    <<"U+0577">>, <<"U+0578">>, <<"U+0579">>, <<"U+057A">>, <<"U+057B">>, <<"U+057C">>,
    <<"U+057D">>, <<"U+057E">>, <<"U+057F">>, <<"U+0580">>, <<"U+0581">>, <<"U+0582">>,
    <<"U+0583">>, <<"U+0584">>, <<"U+0585">>, <<"U+0586">>, <<"U+2D00">>, <<"U+2D01">>,
    <<"U+2D02">>, <<"U+2D03">>, <<"U+2D04">>, <<"U+2D05">>, <<"U+2D06">>, <<"U+2D07">>,
    <<"U+2D08">>, <<"U+2D09">>, <<"U+2D0A">>, <<"U+2D0B">>, <<"U+2D0C">>, <<"U+2D0D">>,
    <<"U+2D0E">>, <<"U+2D0F">>, <<"U+2D10">>, <<"U+2D11">>, <<"U+2D12">>, <<"U+2D13">>,
    <<"U+2D14">>, <<"U+2D15">>, <<"U+2D16">>, <<"U+2D17">>, <<"U+2D18">>, <<"U+2D19">>,
    <<"U+2D1A">>, <<"U+2D1B">>, <<"U+2D1C">>, <<"U+2D1D">>, <<"U+2D1E">>, <<"U+2D1F">>,
    <<"U+2D20">>, <<"U+2D21">>, <<"U+2D22">>, <<"U+2D23">>, <<"U+2D24">>, <<"U+2D25">>,
    <<"U+2D27">>, <<"U+2D2D">>, <<"U+AB70">>, <<"U+AB71">>, <<"U+AB72">>, <<"U+AB73">>,
    <<"U+AB74">>, <<"U+AB75">>, <<"U+AB76">>, <<"U+AB77">>, <<"U+AB78">>, <<"U+AB79">>,
    <<"U+AB7A">>, <<"U+AB7B">>, <<"U+AB7C">>, <<"U+AB7D">>, <<"U+AB7E">>, <<"U+AB7F">>,
    <<"U+AB80">>, <<"U+AB81">>, <<"U+AB82">>, <<"U+AB83">>, <<"U+AB84">>, <<"U+AB85">>,
    <<"U+AB86">>, <<"U+AB87">>, <<"U+AB88">>, <<"U+AB89">>, <<"U+AB8A">>, <<"U+AB8B">>,
    <<"U+AB8C">>, <<"U+AB8D">>, <<"U+AB8E">>, <<"U+AB8F">>, <<"U+AB90">>, <<"U+AB91">>,
    <<"U+AB92">>, <<"U+AB93">>, <<"U+AB94">>, <<"U+AB95">>, <<"U+AB96">>, <<"U+AB97">>,
    <<"U+AB98">>, <<"U+AB99">>, <<"U+AB9A">>, <<"U+AB9B">>, <<"U+AB9C">>, <<"U+AB9D">>,
    <<"U+AB9E">>, <<"U+AB9F">>, <<"U+ABA0">>, <<"U+ABA1">>, <<"U+ABA2">>, <<"U+ABA3">>,
    <<"U+ABA4">>, <<"U+ABA5">>, <<"U+ABA6">>, <<"U+ABA7">>, <<"U+ABA8">>, <<"U+ABA9">>,
    <<"U+ABAA">>, <<"U+ABAB">>, <<"U+ABAC">>, <<"U+ABAD">>, <<"U+ABAE">>, <<"U+ABAF">>,
    <<"U+ABB0">>, <<"U+ABB1">>, <<"U+ABB2">>, <<"U+ABB3">>, <<"U+ABB4">>, <<"U+ABB5">>,
    <<"U+ABB6">>, <<"U+ABB7">>, <<"U+ABB8">>, <<"U+ABB9">>, <<"U+ABBA">>, <<"U+ABBB">>,
    <<"U+ABBC">>, <<"U+ABBD">>, <<"U+ABBE">>, <<"U+ABBF">>, <<"U+13F8">>, <<"U+13F9">>,
    <<"U+13FA">>, <<"U+13FB">>, <<"U+13FC">>, <<"U+13FD">>, <<"U+10D0">>, <<"U+10D1">>,
    <<"U+10D2">>, <<"U+10D3">>, <<"U+10D4">>, <<"U+10D5">>, <<"U+10D6">>, <<"U+10D7">>,
    <<"U+10D8">>, <<"U+10D9">>, <<"U+10DA">>, <<"U+10DB">>, <<"U+10DC">>, <<"U+10DD">>,
    <<"U+10DE">>, <<"U+10DF">>, <<"U+10E0">>, <<"U+10E1">>, <<"U+10E2">>, <<"U+10E3">>,
    <<"U+10E4">>, <<"U+10E5">>, <<"U+10E6">>, <<"U+10E7">>, <<"U+10E8">>, <<"U+10E9">>,
    <<"U+10EA">>, <<"U+10EB">>, <<"U+10EC">>, <<"U+10ED">>, <<"U+10EE">>, <<"U+10EF">>,
    <<"U+10F0">>, <<"U+10F1">>, <<"U+10F2">>, <<"U+10F3">>, <<"U+10F4">>, <<"U+10F5">>,
    <<"U+10F6">>, <<"U+10F7">>, <<"U+10F8">>, <<"U+10F9">>, <<"U+10FA">>, <<"U+10FD">>,
    <<"U+10FE">>, <<"U+10FF">>, <<"U+1E01">>, <<"U+1E03">>, <<"U+1E05">>, <<"U+1E07">>,
    <<"U+1E09">>, <<"U+1E0B">>, <<"U+1E0D">>, <<"U+1E0F">>, <<"U+1E11">>, <<"U+1E13">>,
    <<"U+1E15">>, <<"U+1E17">>, <<"U+1E19">>, <<"U+1E1B">>, <<"U+1E1D">>, <<"U+1E1F">>,
    <<"U+1E21">>, <<"U+1E23">>, <<"U+1E25">>, <<"U+1E27">>, <<"U+1E29">>, <<"U+1E2B">>,
    <<"U+1E2D">>, <<"U+1E2F">>, <<"U+1E31">>, <<"U+1E33">>, <<"U+1E35">>, <<"U+1E37">>,
    <<"U+1E39">>, <<"U+1E3B">>, <<"U+1E3D">>, <<"U+1E3F">>, <<"U+1E41">>, <<"U+1E43">>,
    <<"U+1E45">>, <<"U+1E47">>, <<"U+1E49">>, <<"U+1E4B">>, <<"U+1E4D">>, <<"U+1E4F">>,
    <<"U+1E51">>, <<"U+1E53">>, <<"U+1E55">>, <<"U+1E57">>, <<"U+1E59">>, <<"U+1E5B">>,
    <<"U+1E5D">>, <<"U+1E5F">>, <<"U+1E61">>, <<"U+1E63">>, <<"U+1E65">>, <<"U+1E67">>,
    <<"U+1E69">>, <<"U+1E6B">>, <<"U+1E6D">>, <<"U+1E6F">>, <<"U+1E71">>, <<"U+1E73">>,
    <<"U+1E75">>, <<"U+1E77">>, <<"U+1E79">>, <<"U+1E7B">>, <<"U+1E7D">>, <<"U+1E7F">>,
    <<"U+1E81">>, <<"U+1E83">>, <<"U+1E85">>, <<"U+1E87">>, <<"U+1E89">>, <<"U+1E8B">>,
    <<"U+1E8D">>, <<"U+1E8F">>, <<"U+1E91">>, <<"U+1E93">>, <<"U+1E95">>, <<"ß">>, <<"U+1EA1">>,
    <<"U+1EA3">>, <<"U+1EA5">>, <<"U+1EA7">>, <<"U+1EA9">>, <<"U+1EAB">>, <<"U+1EAD">>,
    <<"U+1EAF">>, <<"U+1EB1">>, <<"U+1EB3">>, <<"U+1EB5">>, <<"U+1EB7">>, <<"U+1EB9">>,
    <<"U+1EBB">>, <<"U+1EBD">>, <<"U+1EBF">>, <<"U+1EC1">>, <<"U+1EC3">>, <<"U+1EC5">>,
    <<"U+1EC7">>, <<"U+1EC9">>, <<"U+1ECB">>, <<"U+1ECD">>, <<"U+1ECF">>, <<"U+1ED1">>,
    <<"U+1ED3">>, <<"U+1ED5">>, <<"U+1ED7">>, <<"U+1ED9">>, <<"U+1EDB">>, <<"U+1EDD">>,
    <<"U+1EDF">>, <<"U+1EE1">>, <<"U+1EE3">>, <<"U+1EE5">>, <<"U+1EE7">>, <<"U+1EE9">>,
    <<"U+1EEB">>, <<"U+1EED">>, <<"U+1EEF">>, <<"U+1EF1">>, <<"U+1EF3">>, <<"U+1EF5">>,
    <<"U+1EF7">>, <<"U+1EF9">>, <<"U+1EFB">>, <<"U+1EFD">>, <<"U+1EFF">>, <<"U+1F00">>,
    <<"U+1F01">>, <<"U+1F02">>, <<"U+1F03">>, <<"U+1F04">>, <<"U+1F05">>, <<"U+1F06">>,
    <<"U+1F07">>, <<"U+1F10">>, <<"U+1F11">>, <<"U+1F12">>, <<"U+1F13">>, <<"U+1F14">>,
    <<"U+1F15">>, <<"U+1F20">>, <<"U+1F21">>, <<"U+1F22">>, <<"U+1F23">>, <<"U+1F24">>,
    <<"U+1F25">>, <<"U+1F26">>, <<"U+1F27">>, <<"U+1F30">>, <<"U+1F31">>, <<"U+1F32">>,
    <<"U+1F33">>, <<"U+1F34">>, <<"U+1F35">>, <<"U+1F36">>, <<"U+1F37">>, <<"U+1F40">>,
    <<"U+1F41">>, <<"U+1F42">>, <<"U+1F43">>, <<"U+1F44">>, <<"U+1F45">>, <<"U+1F51">>,
    <<"U+1F53">>, <<"U+1F55">>, <<"U+1F57">>, <<"U+1F60">>, <<"U+1F61">>, <<"U+1F62">>,
    <<"U+1F63">>, <<"U+1F64">>, <<"U+1F65">>, <<"U+1F66">>, <<"U+1F67">>, <<"U+1F80">>,
    <<"U+1F81">>, <<"U+1F82">>, <<"U+1F83">>, <<"U+1F84">>, <<"U+1F85">>, <<"U+1F86">>,
    <<"U+1F87">>, <<"U+1F90">>, <<"U+1F91">>, <<"U+1F92">>, <<"U+1F93">>, <<"U+1F94">>,
    <<"U+1F95">>, <<"U+1F96">>, <<"U+1F97">>, <<"U+1FA0">>, <<"U+1FA1">>, <<"U+1FA2">>,
    <<"U+1FA3">>, <<"U+1FA4">>, <<"U+1FA5">>, <<"U+1FA6">>, <<"U+1FA7">>, <<"U+1FB0">>,
    <<"U+1FB1">>, <<"U+1F70">>, <<"U+1F71">>, <<"U+1FB3">>, <<"U+1F72">>, <<"U+1F73">>,
    <<"U+1F74">>, <<"U+1F75">>, <<"U+1FC3">>, <<"U+1FD0">>, <<"U+1FD1">>, <<"U+1F76">>,
    <<"U+1F77">>, <<"U+1FE0">>, <<"U+1FE1">>, <<"U+1F7A">>, <<"U+1F7B">>, <<"U+1FE5">>,
    <<"U+1F78">>, <<"U+1F79">>, <<"U+1F7C">>, <<"U+1F7D">>, <<"U+1FF3">>, <<"U+03C9">>, <<"k">>,
    <<"å">>, <<"U+214E">>, <<"U+2170">>, <<"U+2171">>, <<"U+2172">>, <<"U+2173">>, <<"U+2174">>,
    <<"U+2175">>, <<"U+2176">>, <<"U+2177">>, <<"U+2178">>, <<"U+2179">>, <<"U+217A">>,
    <<"U+217B">>, <<"U+217C">>, <<"U+217D">>, <<"U+217E">>, <<"U+217F">>, <<"U+2184">>,
    <<"U+24D0">>, <<"U+24D1">>, <<"U+24D2">>, <<"U+24D3">>, <<"U+24D4">>, <<"U+24D5">>,
    <<"U+24D6">>, <<"U+24D7">>, <<"U+24D8">>, <<"U+24D9">>, <<"U+24DA">>, <<"U+24DB">>,
    <<"U+24DC">>, <<"U+24DD">>, <<"U+24DE">>, <<"U+24DF">>, <<"U+24E0">>, <<"U+24E1">>,
    <<"U+24E2">>, <<"U+24E3">>, <<"U+24E4">>, <<"U+24E5">>, <<"U+24E6">>, <<"U+24E7">>,
    <<"U+24E8">>, <<"U+24E9">>, <<"U+2C30">>, <<"U+2C31">>, <<"U+2C32">>, <<"U+2C33">>,
    <<"U+2C34">>, <<"U+2C35">>, <<"U+2C36">>, <<"U+2C37">>, <<"U+2C38">>, <<"U+2C39">>,
    <<"U+2C3A">>, <<"U+2C3B">>, <<"U+2C3C">>, <<"U+2C3D">>, <<"U+2C3E">>, <<"U+2C3F">>,
    <<"U+2C40">>, <<"U+2C41">>, <<"U+2C42">>, <<"U+2C43">>, <<"U+2C44">>, <<"U+2C45">>,
    <<"U+2C46">>, <<"U+2C47">>, <<"U+2C48">>, <<"U+2C49">>, <<"U+2C4A">>, <<"U+2C4B">>,
    <<"U+2C4C">>, <<"U+2C4D">>, <<"U+2C4E">>, <<"U+2C4F">>, <<"U+2C50">>, <<"U+2C51">>,
    <<"U+2C52">>, <<"U+2C53">>, <<"U+2C54">>, <<"U+2C55">>, <<"U+2C56">>, <<"U+2C57">>,
    <<"U+2C58">>, <<"U+2C59">>, <<"U+2C5A">>, <<"U+2C5B">>, <<"U+2C5C">>, <<"U+2C5D">>,
    <<"U+2C5E">>, <<"U+2C5F">>, <<"U+2C61">>, <<"U+026B">>, <<"U+1D7D">>, <<"U+027D">>,
    <<"U+2C68">>, <<"U+2C6A">>, <<"U+2C6C">>, <<"U+0251">>, <<"U+0271">>, <<"U+0250">>,
    <<"U+0252">>, <<"U+2C73">>, <<"U+2C76">>, <<"U+023F">>, <<"U+0240">>, <<"U+2C81">>,
    <<"U+2C83">>, <<"U+2C85">>, <<"U+2C87">>, <<"U+2C89">>, <<"U+2C8B">>, <<"U+2C8D">>,
    <<"U+2C8F">>, <<"U+2C91">>, <<"U+2C93">>, <<"U+2C95">>, <<"U+2C97">>, <<"U+2C99">>,
    <<"U+2C9B">>, <<"U+2C9D">>, <<"U+2C9F">>, <<"U+2CA1">>, <<"U+2CA3">>, <<"U+2CA5">>,
    <<"U+2CA7">>, <<"U+2CA9">>, <<"U+2CAB">>, <<"U+2CAD">>, <<"U+2CAF">>, <<"U+2CB1">>,
    <<"U+2CB3">>, <<"U+2CB5">>, <<"U+2CB7">>, <<"U+2CB9">>, <<"U+2CBB">>, <<"U+2CBD">>,
    <<"U+2CBF">>, <<"U+2CC1">>, <<"U+2CC3">>, <<"U+2CC5">>, <<"U+2CC7">>, <<"U+2CC9">>,
    <<"U+2CCB">>, <<"U+2CCD">>, <<"U+2CCF">>, <<"U+2CD1">>, <<"U+2CD3">>, <<"U+2CD5">>,
    <<"U+2CD7">>, <<"U+2CD9">>, <<"U+2CDB">>, <<"U+2CDD">>, <<"U+2CDF">>, <<"U+2CE1">>,
    <<"U+2CE3">>, <<"U+2CEC">>, <<"U+2CEE">>, <<"U+2CF3">>, <<"U+A641">>, <<"U+A643">>,
    <<"U+A645">>, <<"U+A647">>, <<"U+A649">>, <<"U+A64B">>, <<"U+A64D">>, <<"U+A64F">>,
    <<"U+A651">>, <<"U+A653">>, <<"U+A655">>, <<"U+A657">>, <<"U+A659">>, <<"U+A65B">>,
    <<"U+A65D">>, <<"U+A65F">>, <<"U+A661">>, <<"U+A663">>, <<"U+A665">>, <<"U+A667">>,
    <<"U+A669">>, <<"U+A66B">>, <<"U+A66D">>, <<"U+A681">>, <<"U+A683">>, <<"U+A685">>,
    <<"U+A687">>, <<"U+A689">>, <<"U+A68B">>, <<"U+A68D">>, <<"U+A68F">>, <<"U+A691">>,
    <<"U+A693">>, <<"U+A695">>, <<"U+A697">>, <<"U+A699">>, <<"U+A69B">>, <<"U+A723">>,
    <<"U+A725">>, <<"U+A727">>, <<"U+A729">>, <<"U+A72B">>, <<"U+A72D">>, <<"U+A72F">>,
    <<"U+A733">>, <<"U+A735">>, <<"U+A737">>, <<"U+A739">>, <<"U+A73B">>, <<"U+A73D">>,
    <<"U+A73F">>, <<"U+A741">>, <<"U+A743">>, <<"U+A745">>, <<"U+A747">>, <<"U+A749">>,
    <<"U+A74B">>, <<"U+A74D">>, <<"U+A74F">>, <<"U+A751">>, <<"U+A753">>, <<"U+A755">>,
    <<"U+A757">>, <<"U+A759">>, <<"U+A75B">>, <<"U+A75D">>, <<"U+A75F">>, <<"U+A761">>,
    <<"U+A763">>, <<"U+A765">>, <<"U+A767">>, <<"U+A769">>, <<"U+A76B">>, <<"U+A76D">>,
    <<"U+A76F">>, <<"U+A77A">>, <<"U+A77C">>, <<"U+1D79">>, <<"U+A77F">>, <<"U+A781">>,
    <<"U+A783">>, <<"U+A785">>, <<"U+A787">>, <<"U+A78C">>, <<"U+0265">>, <<"U+A791">>,
    <<"U+A793">>, <<"U+A797">>, <<"U+A799">>, <<"U+A79B">>, <<"U+A79D">>, <<"U+A79F">>,
    <<"U+A7A1">>, <<"U+A7A3">>, <<"U+A7A5">>, <<"U+A7A7">>, <<"U+A7A9">>, <<"U+0266">>,
    <<"U+025C">>, <<"U+0261">>, <<"U+026C">>, <<"U+026A">>, <<"U+029E">>, <<"U+0287">>,
    <<"U+029D">>, <<"U+AB53">>, <<"U+A7B5">>, <<"U+A7B7">>, <<"U+A7B9">>, <<"U+A7BB">>,
    <<"U+A7BD">>, <<"U+A7BF">>, <<"U+A7C1">>, <<"U+A7C3">>, <<"U+A794">>, <<"U+0282">>,
    <<"U+1D8E">>, <<"U+A7C8">>, <<"U+A7CA">>, <<"U+A7D1">>, <<"U+A7D7">>, <<"U+A7D9">>,
    <<"U+A7F6">>, <<"U+FF41">>, <<"U+FF42">>, <<"U+FF43">>, <<"U+FF44">>, <<"U+FF45">>,
    <<"U+FF46">>, <<"U+FF47">>, <<"U+FF48">>, <<"U+FF49">>, <<"U+FF4A">>, <<"U+FF4B">>,
    <<"U+FF4C">>, <<"U+FF4D">>, <<"U+FF4E">>, <<"U+FF4F">>, <<"U+FF50">>, <<"U+FF51">>,
    <<"U+FF52">>, <<"U+FF53">>, <<"U+FF54">>, <<"U+FF55">>, <<"U+FF56">>, <<"U+FF57">>,
    <<"U+FF58">>, <<"U+FF59">>, <<"U+FF5A">>, <<"U+10428">>, <<"U+10429">>, <<"U+1042A">>,
    <<"U+1042B">>, <<"U+1042C">>, <<"U+1042D">>, <<"U+1042E">>, <<"U+1042F">>, <<"U+10430">>,
    <<"U+10431">>, <<"U+10432">>, <<"U+10433">>, <<"U+10434">>, <<"U+10435">>, <<"U+10436">>,
    <<"U+10437">>, <<"U+10438">>, <<"U+10439">>, <<"U+1043A">>, <<"U+1043B">>, <<"U+1043C">>,
    <<"U+1043D">>, <<"U+1043E">>, <<"U+1043F">>, <<"U+10440">>, <<"U+10441">>, <<"U+10442">>,
    <<"U+10443">>, <<"U+10444">>, <<"U+10445">>, <<"U+10446">>, <<"U+10447">>, <<"U+10448">>,
    <<"U+10449">>, <<"U+1044A">>, <<"U+1044B">>, <<"U+1044C">>, <<"U+1044D">>, <<"U+1044E">>,
    <<"U+1044F">>, <<"U+104D8">>, <<"U+104D9">>, <<"U+104DA">>, <<"U+104DB">>, <<"U+104DC">>,
    <<"U+104DD">>, <<"U+104DE">>, <<"U+104DF">>, <<"U+104E0">>, <<"U+104E1">>, <<"U+104E2">>,
    <<"U+104E3">>, <<"U+104E4">>, <<"U+104E5">>, <<"U+104E6">>, <<"U+104E7">>, <<"U+104E8">>,
    <<"U+104E9">>, <<"U+104EA">>, <<"U+104EB">>, <<"U+104EC">>, <<"U+104ED">>, <<"U+104EE">>,
    <<"U+104EF">>, <<"U+104F0">>, <<"U+104F1">>, <<"U+104F2">>, <<"U+104F3">>, <<"U+104F4">>,
    <<"U+104F5">>, <<"U+104F6">>, <<"U+104F7">>, <<"U+104F8">>, <<"U+104F9">>, <<"U+104FA">>,
    <<"U+104FB">>, <<"U+10597">>, <<"U+10598">>, <<"U+10599">>, <<"U+1059A">>, <<"U+1059B">>,
    <<"U+1059C">>, <<"U+1059D">>, <<"U+1059E">>, <<"U+1059F">>, <<"U+105A0">>, <<"U+105A1">>,
    <<"U+105A3">>, <<"U+105A4">>, <<"U+105A5">>, <<"U+105A6">>, <<"U+105A7">>, <<"U+105A8">>,
    <<"U+105A9">>, <<"U+105AA">>, <<"U+105AB">>, <<"U+105AC">>, <<"U+105AD">>, <<"U+105AE">>,
    <<"U+105AF">>, <<"U+105B0">>, <<"U+105B1">>, <<"U+105B3">>, <<"U+105B4">>, <<"U+105B5">>,
    <<"U+105B6">>, <<"U+105B7">>, <<"U+105B8">>, <<"U+105B9">>, <<"U+105BB">>, <<"U+105BC">>,
    <<"U+10CC0">>, <<"U+10CC1">>, <<"U+10CC2">>, <<"U+10CC3">>, <<"U+10CC4">>, <<"U+10CC5">>,
    <<"U+10CC6">>, <<"U+10CC7">>, <<"U+10CC8">>, <<"U+10CC9">>, <<"U+10CCA">>, <<"U+10CCB">>,
    <<"U+10CCC">>, <<"U+10CCD">>, <<"U+10CCE">>, <<"U+10CCF">>, <<"U+10CD0">>, <<"U+10CD1">>,
    <<"U+10CD2">>, <<"U+10CD3">>, <<"U+10CD4">>, <<"U+10CD5">>, <<"U+10CD6">>, <<"U+10CD7">>,
    <<"U+10CD8">>, <<"U+10CD9">>, <<"U+10CDA">>, <<"U+10CDB">>, <<"U+10CDC">>, <<"U+10CDD">>,
    <<"U+10CDE">>, <<"U+10CDF">>, <<"U+10CE0">>, <<"U+10CE1">>, <<"U+10CE2">>, <<"U+10CE3">>,
    <<"U+10CE4">>, <<"U+10CE5">>, <<"U+10CE6">>, <<"U+10CE7">>, <<"U+10CE8">>, <<"U+10CE9">>,
    <<"U+10CEA">>, <<"U+10CEB">>, <<"U+10CEC">>, <<"U+10CED">>, <<"U+10CEE">>, <<"U+10CEF">>,
    <<"U+10CF0">>, <<"U+10CF1">>, <<"U+10CF2">>, <<"U+118C0">>, <<"U+118C1">>, <<"U+118C2">>,
    <<"U+118C3">>, <<"U+118C4">>, <<"U+118C5">>, <<"U+118C6">>, <<"U+118C7">>, <<"U+118C8">>,
    <<"U+118C9">>, <<"U+118CA">>, <<"U+118CB">>, <<"U+118CC">>, <<"U+118CD">>, <<"U+118CE">>,
    <<"U+118CF">>, <<"U+118D0">>, <<"U+118D1">>, <<"U+118D2">>, <<"U+118D3">>, <<"U+118D4">>,
    <<"U+118D5">>, <<"U+118D6">>, <<"U+118D7">>, <<"U+118D8">>, <<"U+118D9">>, <<"U+118DA">>,
    <<"U+118DB">>, <<"U+118DC">>, <<"U+118DD">>, <<"U+118DE">>, <<"U+118DF">>, <<"U+16E60">>,
    <<"U+16E61">>, <<"U+16E62">>, <<"U+16E63">>, <<"U+16E64">>, <<"U+16E65">>, <<"U+16E66">>,
    <<"U+16E67">>, <<"U+16E68">>, <<"U+16E69">>, <<"U+16E6A">>, <<"U+16E6B">>, <<"U+16E6C">>,
    <<"U+16E6D">>, <<"U+16E6E">>, <<"U+16E6F">>, <<"U+16E70">>, <<"U+16E71">>, <<"U+16E72">>,
    <<"U+16E73">>, <<"U+16E74">>, <<"U+16E75">>, <<"U+16E76">>, <<"U+16E77">>, <<"U+16E78">>,
    <<"U+16E79">>, <<"U+16E7A">>, <<"U+16E7B">>, <<"U+16E7C">>, <<"U+16E7D">>, <<"U+16E7E">>,
    <<"U+16E7F">>, <<"U+1E922">>, <<"U+1E923">>, <<"U+1E924">>, <<"U+1E925">>, <<"U+1E926">>,
    <<"U+1E927">>, <<"U+1E928">>, <<"U+1E929">>, <<"U+1E92A">>, <<"U+1E92B">>, <<"U+1E92C">>,
    <<"U+1E92D">>, <<"U+1E92E">>, <<"U+1E92F">>, <<"U+1E930">>, <<"U+1E931">>, <<"U+1E932">>,
    <<"U+1E933">>, <<"U+1E934">>, <<"U+1E935">>, <<"U+1E936">>, <<"U+1E937">>, <<"U+1E938">>,
    <<"U+1E939">>, <<"U+1E93A">>, <<"U+1E93B">>, <<"U+1E93C">>, <<"U+1E93D">>, <<"U+1E93E">>,
    <<"U+1E93F">>, <<"U+1E940">>, <<"U+1E941">>, <<"U+1E942">>, <<"U+1E943">>>>
LowerFromSet == {LowerFrom[i] : i \in 1..Len(LowerFrom)}

\* the characters str.lower() skips on either side of a capital sigma
CaseIgnorableLatin1 ==
   {"'", ".", ":", "^", "¨", "­", "¯", "´", "·", "¸"}
CaseIgnorableRanges ==
   {<<\h0060, \h0060>>, <<\h02B0, \h036F>>, <<\h0374, \h0375>>, <<\h037A, \h037A>>,
    <<\h0384, \h0385>>, <<\h0387, \h0387>>, <<\h0483, \h0489>>, <<\h0559, \h0559>>,
    <<\h055F, \h055F>>, <<\h0591, \h05BD>>, <<\h05BF, \h05BF>>, <<\h05C1, \h05C2>>,
    <<\h05C4, \h05C5>>, <<\h05C7, \h05C7>>, <<\h05F4, \h05F4>>, <<\h0600, \h0605>>,
    <<\h0610, \h061A>>, <<\h061C, \h061C>>, <<\h0640, \h0640>>, <<\h064B, \h065F>>,
    <<\h0670, \h0670>>, <<\h06D6, \h06DD>>, <<\h06DF, \h06E8>>, <<\h06EA, \h06ED>>,
    <<\h070F, \h070F>>, <<\h0711, \h0711>>, <<\h0730, \h074A>>, <<\h07A6, \h07B0>>,
    <<\h07EB, \h07F5>>, <<\h07FA, \h07FA>>, <<\h07FD, \h07FD>>, <<\h0816, \h082D>>,
    <<\h0859, \h085B>>, <<\h0888, \h0888>>, <<\h0890, \h0891>>, <<\h0898, \h089F>>,
    <<\h08C9, \h0902>>, <<\h093A, \h093A>>, <<\h093C, \h093C>>, <<\h0941, \h0948>>,
    <<\h094D, \h094D>>, <<\h0951, \h0957>>, <<\h0962, \h0963>>, <<\h0971, \h0971>>,
    <<\h0981, \h0981>>, <<\h09BC, \h09BC>>, <<\h09C1, \h09C4>>, <<\h09CD, \h09CD>>,
    <<\h09E2, \h09E3>>, <<\h09FE, \h09FE>>, <<\h0A01, \h0A02>>, <<\h0A3C, \h0A3C>>,
    <<\h0A41, \h0A42>>, <<\h0A47, \h0A48>>, <<\h0A4B, \h0A4D>>, <<\h0A51, \h0A51>>,
    <<\h0A70, \h0A71>>, <<\h0A75, \h0A75>>, <<\h0A81, \h0A82>>, <<\h0ABC, \h0ABC>>,
    <<\h0AC1, \h0AC5>>, <<\h0AC7, \h0AC8>>, <<\h0ACD, \h0ACD>>, <<\h0AE2, \h0AE3>>,
    <<\h0AFA, \h0AFF>>, <<\h0B01, \h0B01>>, <<\h0B3C, \h0B3C>>, <<\h0B3F, \h0B3F>>,
    <<\h0B41, \h0B44>>, <<\h0B4D, \h0B4D>>, <<\h0B55, \h0B56>>, <<\h0B62, \h0B63>>,
    <<\h0B82, \h0B82>>, <<\h0BC0, \h0BC0>>, <<\h0BCD, \h0BCD>>, <<\h0C00, \h0C00>>,
    <<\h0C04, \h0C04>>, <<\h0C3C, \h0C3C>>, <<\h0C3E, \h0C40>>, <<\h0C46, \h0C48>>,
    <<\h0C4A, \h0C4D>>, <<\h0C55, \h0C56>>, <<\h0C62, \h0C63>>, <<\h0C81, \h0C81>>,
    <<\h0CBC, \h0CBC>>, <<\h0CBF, \h0CBF>>, <<\h0CC6, \h0CC6>>, <<\h0CCC, \h0CCD>>,
    <<\h0CE2, \h0CE3>>, <<\h0D00, \h0D01>>, <<\h0D3B, \h0D3C>>, <<\h0D41, \h0D44>>,
    <<\h0D4D, \h0D4D>>, <<\h0D62, \h0D63>>, <<\h0D81, \h0D81>>, <<\h0DCA, \h0DCA>>,
    <<\h0DD2, \h0DD4>>, <<\h0DD6, \h0DD6>>, <<\h0E31, \h0E31>>, <<\h0E34, \h0E3A>>,
    <<\h0E46, \h0E4E>>, <<\h0EB1, \h0EB1>>, <<\h0EB4, \h0EBC>>, <<\h0EC6, \h0EC6>>,
    <<\h0EC8, \h0ECD>>, <<\h0F18, \h0F19>>, <<\h0F35, \h0F35>>, <<\h0F37, \h0F37>>,
    <<\h0F39, \h0F39>>, <<\h0F71, \h0F7E>>, <<\h0F80, \h0F84>>, <<\h0F86, \h0F87>>,
    <<\h0F8D, \h0F97>>, <<\h0F99, \h0FBC>>, <<\h0FC6, \h0FC6>>, <<\h102D, \h1030>>,
    <<\h1032, \h1037>>, <<\h1039, \h103A>>, <<\h103D, \h103E>>, <<\h1058, \h1059>>,
    <<\h105E, \h1060>>, <<\h1071, \h1074>>, <<\h1082, \h1082>>, <<\h1085, \h1086>>,
    <<\h108D, \h108D>>, <<\h109D, \h109D>>, <<\h10FC, \h10FC>>, <<\h135D, \h135F>>,
    <<\h1712, \h1714>>, <<\h1732, \h1733>>, <<\h1752, \h1753>>, <<\h1772, \h1773>>,
    <<\h17B4, \h17B5>>, <<\h17B7, \h17BD>>, <<\h17C6, \h17C6>>, <<\h17C9, \h17D3>>,
    <<\h17D7, \h17D7>>, <<\h17DD, \h17DD>>, <<\h180B, \h180F>>, <<\h1843, \h1843>>,
    <<\h1885, \h1886>>, <<\h18A9, \h18A9>>, <<\h1920, \h1922>>, <<\h1927, \h1928>>,
    <<\h1932, \h1932>>, <<\h1939, \h193B>>, <<\h1A17, \h1A18>>, <<\h1A1B, \h1A1B>>,
    <<\h1A56, \h1A56>>, <<\h1A58, \h1A5E>>, <<\h1A60, \h1A60>>, <<\h1A62, \h1A62>>,
    <<\h1A65, \h1A6C>>, <<\h1A73, \h1A7C>>, <<\h1A7F, \h1A7F>>, <<\h1AA7, \h1AA7>>,
    <<\h1AB0, \h1ACE>>, <<\h1B00, \h1B03>>, <<\h1B34, \h1B34>>, <<\h1B36, \h1B3A>>,
    <<\h1B3C, \h1B3C>>, <<\h1B42, \h1B42>>, <<\h1B6B, \h1B73>>, <<\h1B80, \h1B81>>,
    <<\h1BA2, \h1BA5>>, <<\h1BA8, \h1BA9>>, <<\h1BAB, \h1BAD>>, <<\h1BE6, \h1BE6>>,
    <<\h1BE8, \h1BE9>>, <<\h1BED, \h1BED>>, <<\h1BEF, \h1BF1>>, <<\h1C2C, \h1C33>>,
    <<\h1C36, \h1C37>>, <<\h1C78, \h1C7D>>, <<\h1CD0, \h1CD2>>, <<\h1CD4, \h1CE0>>,
    <<\h1CE2, \h1CE8>>, <<\h1CED, \h1CED>>, <<\h1CF4, \h1CF4>>, <<\h1CF8, \h1CF9>>,
    <<\h1D2C, \h1D6A>>, <<\h1D78, \h1D78>>, <<\h1D9B, \h1DFF>>, <<\h1FBD, \h1FBD>>,
    <<\h1FBF, \h1FC1>>, <<\h1FCD, \h1FCF>>, <<\h1FDD, \h1FDF>>, <<\h1FED, \h1FEF>>,
    <<\h1FFD, \h1FFE>>, <<\h200B, \h200F>>, <<\h2018, \h2019>>, <<\h2024, \h2024>>,
    <<\h2027, \h2027>>, <<\h202A, \h202E>>, <<\h2060, \h2064>>, <<\h2066, \h206F>>,
    <<\h2071, \h2071>>, <<\h207F, \h207F>>, <<\h2090, \h209C>>, <<\h20D0, \h20F0>>,
    <<\h2C7C, \h2C7D>>, <<\h2CEF, \h2CF1>>, <<\h2D6F, \h2D6F>>, <<\h2D7F, \h2D7F>>,
    <<\h2DE0, \h2DFF>>, <<\h2E2F, \h2E2F>>, <<\h3005, \h3005>>, <<\h302A, \h302D>>,
    <<\h3031, \h3035>>, <<\h303B, \h303B>>, <<\h3099, \h309E>>, <<\h30FC, \h30FE>>,
    <<\hA015, \hA015>>, <<\hA4F8, \hA4FD>>, <<\hA60C, \hA60C>>, <<\hA66F, \hA672>>,
    <<\hA674, \hA67D>>, <<\hA67F, \hA67F>>, <<\hA69C, \hA69F>>, <<\hA6F0, \hA6F1>>,
    <<\hA700, \hA721>>, <<\hA770, \hA770>>, <<\hA788, \hA78A>>, <<\hA7F2, \hA7F4>>,
    <<\hA7F8, \hA7F9>>, <<\hA802, \hA802>>, <<\hA806, \hA806>>, <<\hA80B, \hA80B>>,
    <<\hA825, \hA826>>, <<\hA82C, \hA82C>>, <<\hA8C4, \hA8C5>>, <<\hA8E0, \hA8F1>>,
    <<\hA8FF, \hA8FF>>, <<\hA926, \hA92D>>, <<\hA947, \hA951>>, <<\hA980, \hA982>>,
    <<\hA9B3, \hA9B3>>, <<\hA9B6, \hA9B9>>, <<\hA9BC, \hA9BD>>, <<\hA9CF, \hA9CF>>,
    <<\hA9E5, \hA9E6>>, <<\hAA29, \hAA2E>>, <<\hAA31, \hAA32>>, <<\hAA35, \hAA36>>,
    <<\hAA43, \hAA43>>, <<\hAA4C, \hAA4C>>, <<\hAA70, \hAA70>>, <<\hAA7C, \hAA7C>>,
    <<\hAAB0, \hAAB0>>, <<\hAAB2, \hAAB4>>, <<\hAAB7, \hAAB8>>, <<\hAABE, \hAABF>>,
    <<\hAAC1, \hAAC1>>, <<\hAADD, \hAADD>>, <<\hAAEC, \hAAED>>, <<\hAAF3, \hAAF4>>,
    <<\hAAF6, \hAAF6>>, <<\hAB5B, \hAB5F>>, <<\hAB69, \hAB6B>>, <<\hABE5, \hABE5>>,
    <<\hABE8, \hABE8>>, <<\hABED, \hABED>>, <<\hFB1E, \hFB1E>>, <<\hFBB2, \hFBC2>>,
    <<\hFE00, \hFE0F>>, <<\hFE13, \hFE13>>, <<\hFE20, \hFE2F>>, <<\hFE52, \hFE52>>,
    <<\hFE55, \hFE55>>, <<\hFEFF, \hFEFF>>, <<\hFF07, \hFF07>>, <<\hFF0E, \hFF0E>>,
    <<\hFF1A, \hFF1A>>, <<\hFF3E, \hFF3E>>, <<\hFF40, \hFF40>>, <<\hFF70, \hFF70>>,
    <<\hFF9E, \hFF9F>>, <<\hFFE3, \hFFE3>>, <<\hFFF9, \hFFFB>>, <<\h101FD, \h101FD>>,
    <<\h102E0, \h102E0>>, <<\h10376, \h1037A>>, <<\h10780, \h10785>>, <<\h10787, \h107B0>>,
    <<\h107B2, \h107BA>>, <<\h10A01, \h10A03>>, <<\h10A05, \h10A06>>, <<\h10A0C, \h10A0F>>,
    <<\h10A38, \h10A3A>>, <<\h10A3F, \h10A3F>>, <<\h10AE5, \h10AE6>>, <<\h10D24, \h10D27>>,
    <<\h10EAB, \h10EAC>>, <<\h10F46, \h10F50>>, <<\h10F82, \h10F85>>, <<\h11001, \h11001>>,
    <<\h11038, \h11046>>, <<\h11070, \h11070>>, <<\h11073, \h11074>>, <<\h1107F, \h11081>>,
    <<\h110B3, \h110B6>>, <<\h110B9, \h110BA>>, <<\h110BD, \h110BD>>, <<\h110C2, \h110C2>>,
    <<\h110CD, \h110CD>>, <<\h11100, \h11102>>, <<\h11127, \h1112B>>, <<\h1112D, \h11134>>,
    <<\h11173, \h11173>>, <<\h11180, \h11181>>, <<\h111B6, \h111BE>>, <<\h111C9, \h111CC>>,
    <<\h111CF, \h111CF>>, <<\h1122F, \h11231>>, <<\h11234, \h11234>>, <<\h11236, \h11237>>,
    <<\h1123E, \h1123E>>, <<\h112DF, \h112DF>>, <<\h112E3, \h112EA>>, <<\h11300, \h11301>>,
    <<\h1133B, \h1133C>>, <<\h11340, \h11340>>, <<\h11366, \h1136C>>, <<\h11370, \h11374>>,
    <<\h11438, \h1143F>>, <<\h11442, \h11444>>, <<\h11446, \h11446>>, <<\h1145E, \h1145E>>,
    <<\h114B3, \h114B8>>, <<\h114BA, \h114BA>>, <<\h114BF, \h114C0>>, <<\h114C2, \h114C3>>,
    <<\h115B2, \h115B5>>, <<\h115BC, \h115BD>>, <<\h115BF, \h115C0>>, <<\h115DC, \h115DD>>,
    <<\h11633, \h1163A>>, <<\h1163D, \h1163D>>, <<\h1163F, \h11640>>, <<\h116AB, \h116AB>>,
    <<\h116AD, \h116AD>>, <<\h116B0, \h116B5>>, <<\h116B7, \h116B7>>, <<\h1171D, \h1171F>>,
    <<\h11722, \h11725>>, <<\h11727, \h1172B>>, <<\h1182F, \h11837>>, <<\h11839, \h1183A>>,
    <<\h1193B, \h1193C>>, <<\h1193E, \h1193E>>, <<\h11943, \h11943>>, <<\h119D4, \h119D7>>,
    <<\h119DA, \h119DB>>, <<\h119E0, \h119E0>>, <<\h11A01, \h11A0A>>, <<\h11A33, \h11A38>>,
    <<\h11A3B, \h11A3E>>, <<\h11A47, \h11A47>>, <<\h11A51, \h11A56>>, <<\h11A59, \h11A5B>>,
    <<\h11A8A, \h11A96>>, <<\h11A98, \h11A99>>, <<\h11C30, \h11C36>>, <<\h11C38, \h11C3D>>,
    <<\h11C3F, \h11C3F>>, <<\h11C92, \h11CA7>>, <<\h11CAA, \h11CB0>>, <<\h11CB2, \h11CB3>>,
    <<\h11CB5, \h11CB6>>, <<\h11D31, \h11D36>>, <<\h11D3A, \h11D3A>>, <<\h11D3C, \h11D3D>>,
    <<\h11D3F, \h11D45>>, <<\h11D47, \h11D47>>, <<\h11D90, \h11D91>>, <<\h11D95, \h11D95>>,
    <<\h11D97, \h11D97>>, <<\h11EF3, \h11EF4>>, <<\h13430, \h13438>>, <<\h16AF0, \h16AF4>>,
    <<\h16B30, \h16B36>>, <<\h16B40, \h16B43>>, <<\h16F4F, \h16F4F>>, <<\h16F8F, \h16F9F>>,
    <<\h16FE0, \h16FE1>>, <<\h16FE3, \h16FE4>>, <<\h1AFF0, \h1AFF3>>, <<\h1AFF5, \h1AFFB>>,
    <<\h1AFFD, \h1AFFE>>, <<\h1BC9D, \h1BC9E>>, <<\h1BCA0, \h1BCA3>>, <<\h1CF00, \h1CF2D>>,
    <<\h1CF30, \h1CF46>>, <<\h1D167, \h1D169>>, <<\h1D173, \h1D182>>, <<\h1D185, \h1D18B>>,
    <<\h1D1AA, \h1D1AD>>, <<\h1D242, \h1D244>>, <<\h1DA00, \h1DA36>>, <<\h1DA3B, \h1DA6C>>,
    <<\h1DA75, \h1DA75>>, <<\h1DA84, \h1DA84>>, <<\h1DA9B, \h1DA9F>>, <<\h1DAA1, \h1DAAF>>,
    <<\h1E000, \h1E006>>, <<\h1E008, \h1E018>>, <<\h1E01B, \h1E021>>, <<\h1E023, \h1E024>>,
    <<\h1E026, \h1E02A>>, <<\h1E130, \h1E13D>>, <<\h1E2AE, \h1E2AE>>, <<\h1E2EC, \h1E2EF>>,
    <<\h1E8D0, \h1E8D6>>, <<\h1E944, \h1E94B>>, <<\h1F3FB, \h1F3FF>>, <<\hE0001, \hE0001>>,
    <<\hE0020, \hE007F>>, <<\hE0100, \hE01EF>>}
CaseIgnorableChars == CaseIgnorableLatin1 \cup CharsOf(CaseIgnorableRanges)

\* the cased characters among those str.lower() does not skip
CasedLatin1 ==
   {"A", "B", "C", "D", "E", "F", "G", "H", "I", "J", "K", "L", "M", "N", "O", "P", "Q", "R",
    "S", "T", "U", "V", "W", "X", "Y", "Z", "a", "b", "c", "d", "e", "f", "g", "h", "i", "j",
    "k", "l", "m", "n", "o", "p", "q", "r", "s", "t", "u", "v", "w", "x", "y", "z", "ª", "µ",
    "º", "À", "Á", "Â", "Ã", "Ä", "Å", "Æ", "Ç", "È", "É", "Ê", "Ë", "Ì", "Í", "Î", "Ï", "Ð",
    "Ñ", "Ò", "Ó", "Ô", "Õ", "Ö", "Ø", "Ù", "Ú", "Û", "Ü", "Ý", "Þ", "ß", "à", "á", "â", "ã",
    "ä", "å", "æ", "ç", "è", "é", "ê", "ë", "ì", "í", "î", "ï", "ð", "ñ", "ò", "ó", "ô", "õ",
    "ö", "ø", "ù", "ú", "û", "ü", "ý", "þ", "ÿ"}
CasedRanges ==
   {<<\h0100, \h01BA>>, <<\h01BC, \h01BF>>, <<\h01C4, \h0293>>, <<\h0295, \h02AF>>,
    <<\h0370, \h0373>>, <<\h0376, \h0377>>, <<\h037B, \h037D>>, <<\h037F, \h037F>>,
    <<\h0386, \h0386>>, <<\h0388, \h038A>>, <<\h038C, \h038C>>, <<\h038E, \h03A1>>,
    <<\h03A3, \h03F5>>, <<\h03F7, \h0481>>, <<\h048A, \h052F>>, <<\h0531, \h0556>>,
    <<\h0560, \h0588>>, <<\h10A0, \h10C5>>, <<\h10C7, \h10C7>>, <<\h10CD, \h10CD>>,
    <<\h10D0, \h10FA>>, <<\h10FD, \h10FF>>, <<\h13A0, \h13F5>>, <<\h13F8, \h13FD>>,
    <<\h1C80, \h1C88>>, <<\h1C90, \h1CBA>>, <<\h1CBD, \h1CBF>>, <<\h1D00, \h1D2B>>,
    <<\h1D6B, \h1D77>>, <<\h1D79, \h1D9A>>, <<\h1E00, \h1F15>>, <<\h1F18, \h1F1D>>,
    <<\h1F20, \h1F45>>, <<\h1F48, \h1F4D>>, <<\h1F50, \h1F57>>, <<\h1F59, \h1F59>>,
    <<\h1F5B, \h1F5B>>, <<\h1F5D, \h1F5D>>, <<\h1F5F, \h1F7D>>, <<\h1F80, \h1FB4>>,
    <<\h1FB6, \h1FBC>>, <<\h1FBE, \h1FBE>>, <<\h1FC2, \h1FC4>>, <<\h1FC6, \h1FCC>>,
    <<\h1FD0, \h1FD3>>, <<\h1FD6, \h1FDB>>, <<\h1FE0, \h1FEC>>, <<\h1FF2, \h1FF4>>,
    <<\h1FF6, \h1FFC>>, <<\h2102, \h2102>>, <<\h2107, \h2107>>, <<\h210A, \h2113>>,
    <<\h2115, \h2115>>, <<\h2119, \h211D>>, <<\h2124, \h2124>>, <<\h2126, \h2126>>,
    <<\h2128, \h2128>>, <<\h212A, \h212D>>, <<\h212F, \h2134>>, <<\h2139, \h2139>>,
    <<\h213C, \h213F>>, <<\h2145, \h2149>>, <<\h214E, \h214E>>, <<\h2160, \h217F>>,
    <<\h2183, \h2184>>, <<\h24B6, \h24E9>>, <<\h2C00, \h2C7B>>, <<\h2C7E, \h2CE4>>,
    <<\h2CEB, \h2CEE>>, <<\h2CF2, \h2CF3>>, <<\h2D00, \h2D25>>, <<\h2D27, \h2D27>>,
    <<\h2D2D, \h2D2D>>, <<\hA640, \hA66D>>, <<\hA680, \hA69B>>, <<\hA722, \hA76F>>,
    <<\hA771, \hA787>>, <<\hA78B, \hA78E>>, <<\hA790, \hA7CA>>, <<\hA7D0, \hA7D1>>,
    <<\hA7D3, \hA7D3>>, <<\hA7D5, \hA7D9>>, <<\hA7F5, \hA7F6>>, <<\hA7FA, \hA7FA>>,
    <<\hAB30, \hAB5A>>, <<\hAB60, \hAB68>>, <<\hAB70, \hABBF>>, <<\hFB00, \hFB06>>,
    <<\hFB13, \hFB17>>, <<\hFF21, \hFF3A>>, <<\hFF41, \hFF5A>>, <<\h10400, \h1044F>>,
    <<\h104B0, \h104D3>>, <<\h104D8, \h104FB>>, <<\h10570, \h1057A>>, <<\h1057C, \h1058A>>,
    <<\h1058C, \h10592>>, <<\h10594, \h10595>>, <<\h10597, \h105A1>>, <<\h105A3, \h105B1>>,
    <<\h105B3, \h105B9>>, <<\h105BB, \h105BC>>, <<\h10C80, \h10CB2>>, <<\h10CC0, \h10CF2>>,
    <<\h118A0, \h118DF>>, <<\h16E40, \h16E7F>>, <<\h1D400, \h1D454>>, <<\h1D456, \h1D49C>>,
    <<\h1D49E, \h1D49F>>, <<\h1D4A2, \h1D4A2>>, <<\h1D4A5, \h1D4A6>>, <<\h1D4A9, \h1D4AC>>,
    <<\h1D4AE, \h1D4B9>>, <<\h1D4BB, \h1D4BB>>, <<\h1D4BD, \h1D4C3>>, <<\h1D4C5, \h1D505>>,
    <<\h1D507, \h1D50A>>, <<\h1D50D, \h1D514>>, <<\h1D516, \h1D51C>>, <<\h1D51E, \h1D539>>,
    <<\h1D53B, \h1D53E>>, <<\h1D540, \h1D544>>, <<\h1D546, \h1D546>>, <<\h1D54A, \h1D550>>,
    <<\h1D552, \h1D6A5>>, <<\h1D6A8, \h1D6C0>>, <<\h1D6C2, \h1D6DA>>, <<\h1D6DC, \h1D6FA>>,
    <<\h1D6FC, \h1D714>>, <<\h1D716, \h1D734>>, <<\h1D736, \h1D74E>>, <<\h1D750, \h1D76E>>,
    <<\h1D770, \h1D788>>, <<\h1D78A, \h1D7A8>>, <<\h1D7AA, \h1D7C2>>, <<\h1D7C4, \h1D7CB>>,
    <<\h1DF00, \h1DF09>>, <<\h1DF0B, \h1DF1E>>, <<\h1E900, \h1E943>>, <<\h1F130, \h1F149>>,
    <<\h1F150, \h1F169>>, <<\h1F170, \h1F189>>}
CasedChars == CasedLatin1 \cup CharsOf(CasedRanges)

CapitalSigma == "U+03A3"
SmallSigma == "U+03C3"
FinalSigma == "U+03C2"

\* str.lower() on one character: a string, of two characters for U+0130
LowerChar(c) ==
    IF c \in UpperSet
    THEN <<LowerChars[CHOOSE i \in 1..26 : UpperChars[i] = c]>>
    ELSE IF c \in LowerFromSet
    THEN LowerTo[CHOOSE i \in 1..Len(LowerFrom) : LowerFrom[i] = c]
    ELSE <<c>>

\* s[i:j] with 1-based inclusive bounds; empty when j < i
Slice(s, i, j) == IF j < i THEN <<>> ELSE SubSeq(s, i, j)

\* the least index k >= i with s[k] in chars, Len(s)+1 if there is none
FirstIn(s, i, chars) ==
    IF \E k \in i..Len(s) : s[k] \in chars
    THEN CHOOSE k \in i..Len(s) : s[k] \in chars /\ \A j \in i..(k - 1) : s[j] \notin chars
    ELSE Len(s) + 1

\* the least index k >= i with s[k] outside chars, Len(s)+1 if there is none
FirstNotIn(s, i, chars) ==
    IF \E k \in i..Len(s) : s[k] \notin chars
    THEN CHOOSE k \in i..Len(s) : s[k] \notin chars /\ \A j \in i..(k - 1) : s[j] \in chars
    ELSE Len(s) + 1

\* the greatest index k <= j with s[k] in chars, 0 if there is none
LastIn(s, j, chars) ==
    IF \E k \in 1..j : s[k] \in chars
    THEN CHOOSE k \in 1..j : s[k] \in chars /\ \A m \in (k + 1)..j : s[m] \notin chars
    ELSE 0

\* the greatest index k <= j with s[k] outside chars, 0 if there is none
LastNotIn(s, j, chars) ==
    IF \E k \in 1..j : s[k] \notin chars
    THEN CHOOSE k \in 1..j : s[k] \notin chars /\ \A m \in (k + 1)..j : s[m] \in chars
    ELSE 0

\* the capital sigma at s[i] ends a word: a cased character comes before it
\* and none after it, the skipped characters aside
EndsWord(s, i) ==
    LET before == LastNotIn(s, i - 1, CaseIgnorableChars)
        after == FirstNotIn(s, i + 1, CaseIgnorableChars)
    IN  /\ before > 0
        /\ s[before] \in CasedChars
        /\ (after > Len(s) \/ s[after] \notin CasedChars)

\* what str.lower() makes of s[i]
LowerAt(s, i) ==
    IF s[i] = CapitalSigma
    THEN (IF EndsWord(s, i) THEN <<FinalSigma>> ELSE <<SmallSigma>>)
    ELSE LowerChar(s[i])

RECURSIVE LowerRest(_, _)
LowerRest(s, i) == IF i > Len(s) THEN <<>> ELSE LowerAt(s, i) \o LowerRest(s, i + 1)

\* str.lower()
Lower(s) == LowerRest(s, 1)

\* str.strip(chars)
StripChars(s, drop) ==
    Slice(s, FirstNotIn(s, 1, drop), LastNotIn(s, Len(s), drop))

\* str.strip()
Strip(s) == StripChars(s, SpaceChars)

\* p occurs in s at index i
MatchesAt(s, i, p) ==
    /\ i >= 1
    /\ i + Len(p) - 1 <= Len(s)
    /\ \A k \in 1..Len(p) : s[i + k - 1] = p[k]

\* str.find from index i: the least index >= i where p occurs, or 0
Find(s, p, i) ==
    IF \E k \in i..Len(s) : MatchesAt(s, k, p)
    THEN CHOOSE k \in i..Len(s) :
            MatchesAt(s, k, p) /\ \A j \in i..(k - 1) : ~MatchesAt(s, j, p)
    ELSE 0

\* p in s
Contains(s, p) == Find(s, p, 1) # 0

\* str.endswith
EndsWith(s, p) == Len(p) <= Len(s) /\ MatchesAt(s, Len(s) - Len(p) + 1, p)

\* the least index >= i holding a character outside the class, Len(s)+1 if none
SkipSpace(s, i) == FirstNotIn(s, i, SpaceChars)
SkipWord(s, i) == FirstNotIn(s, i, WordChars)

\* the least index >= i holding a character of stop, Len(s)+1 if none
SkipUntil(s, i, stop) == FirstIn(s, i, stop)

\* re.sub(r"[...]", "", s) for a class of single characters
RemoveChars(s, drop) == SelectSeq(s, LAMBDA c : c \notin drop)

\* str.replace(c, "") for one character
ReplaceChar(s, c) == RemoveChars(s, {c})

(***************************************************************************)
(* slugify (lines 20-23).                                                  *)
(***************************************************************************)
\* re.sub(r"[^A-Za-z0-9]+", "-", s): each maximal run outside the class -> "-"
RECURSIVE SubNonAlnum(_, _)
SubNonAlnum(s, i) ==
    IF i > Len(s) THEN <<>>
    ELSE IF IsAlnum(s[i]) THEN <<s[i]>> \o SubNonAlnum(s, i + 1)
    ELSE <<"-">> \o SubNonAlnum(s, FirstIn(s, i, AlnumChars))

\* re.sub(r"-+", "-", s): each maximal run of hyphens -> "-"
RECURSIVE SubHyphens(_, _)
SubHyphens(s, i) ==
    IF i > Len(s) THEN <<>>
    ELSE IF s[i] # "-" THEN <<s[i]>> \o SubHyphens(s, i + 1)
    ELSE <<"-">> \o SubHyphens(s, FirstNotIn(s, i, {"-"}))

\* slugify without the call of lower() of line 21
slugifyWithoutLower(value) ==
    LET value1 == SubNonAlnum(Strip(value), 1)
    IN  StripChars(SubHyphens(value1, 1), {"-"})

slugify(value) ==
    LET value1 == SubNonAlnum(Lower(Strip(value)), 1)
    IN  StripChars(SubHyphens(value1, 1), {"-"})

(***************************************************************************)
(* dict: the sequence of its <<key, value>> items in insertion order.      *)
(***************************************************************************)
DictKeys(d) == {d[i][1] : i \in 1..Len(d)}
DictItems(d) == {d[i] : i \in 1..Len(d)}
\* key in d
DictHas(d, key) == key \in DictKeys(d)
\* d[key], for a key of d
DictGet(d, key) == d[CHOOSE i \in 1..Len(d) : d[i][1] = key][2]
\* d[key] = value: a present key keeps its place and takes the new value
DictSet(d, key, value) ==
    IF DictHas(d, key)
    THEN [i \in 1..Len(d) |-> IF d[i][1] = key THEN <<key, value>> ELSE d[i]]
    ELSE Append(d, <<key, value>>)

\* dict(pairs): later pairs overwrite earlier ones
RECURSIVE DictFromPairs(_, _, _)
DictFromPairs(pairs, i, d) ==
    IF i > Len(pairs) THEN d
    ELSE DictFromPairs(pairs, i + 1, DictSet(d, pairs[i][1], pairs[i][2]))

dict(pairs) == DictFromPairs(pairs, 1, <<>>)

(***************************************************************************)
(* read_layout_lookup (lines 26-46).                                       *)
(***************************************************************************)
\* "var __layoutPageDescriptionEntries = {" (line 31)
EntriesMarker == <<"v","a","r"," ","_","_","l","a","y","o","u","t","P","a","g","e","D","e","s","c","r","i","p","t","i","o","n","E","n","t","r","i","e","s"," ","="," ","{">>
\* "};" (line 31)
EntriesClose == <<"}", ";">>

\* re.search(r"var __layoutPageDescriptionEntries = \{([\s\S]*?)\};", text):
\* the leftmost marker that a "};" follows, and the text up to the first "};"
EntriesStart(text) == Find(text, EntriesMarker, 1)
EntriesEnd(text) ==
    IF EntriesStart(text) = 0 THEN 0
    ELSE Find(text, EntriesClose, EntriesStart(text) + Len(EntriesMarker))

\* line 34 without its test: the run goes on whatever the search finds
entries_match_unchecked(text) == TRUE

\* the search of lines 30-33 matches (line 34)
entries_match(text) == EntriesStart(text) # 0 /\ EntriesEnd(text) # 0

\* entries_match.group(1)
EntriesGroup(text) ==
    Slice(text, EntriesStart(text) + Len(EntriesMarker), EntriesEnd(text) - 1)

\* one attempt of r"'([^']+)':\s*'([^']+)'" at index i: the indices of the four
\* quotes, 0 where the attempt fails
EntryQ2(s, i) == IF i <= Len(s) /\ s[i] = "'" THEN SkipUntil(s, i + 1, {"'"}) ELSE 0
EntryQ3(s, i) ==
    LET q2 == EntryQ2(s, i)
    IN  IF q2 = 0 \/ q2 > Len(s) \/ q2 = i + 1 THEN 0
        ELSE IF q2 + 1 > Len(s) \/ s[q2 + 1] # ":" THEN 0
        ELSE LET q3 == SkipSpace(s, q2 + 2)
             IN  IF q3 <= Len(s) /\ s[q3] = "'" THEN q3 ELSE 0
EntryQ4(s, i) ==
    LET q3 == EntryQ3(s, i)
    IN  IF q3 = 0 THEN 0
        ELSE LET q4 == SkipUntil(s, q3 + 1, {"'"})
             IN  IF q4 > Len(s) \/ q4 = q3 + 1 THEN 0 ELSE q4

\* re.findall(r"'([^']+)':\s*'([^']+)'", s): the <<key, value>> groups of the
\* successive non-overlapping matches, leftmost first (a match starts at a quote)
RECURSIVE FindAllEntries(_, _)
FindAllEntries(s, i) ==
    IF i > Len(s) THEN <<>>
    ELSE IF s[i] # "'" THEN FindAllEntries(s, SkipUntil(s, i, {"'"}))
    ELSE IF EntryQ4(s, i) = 0 THEN FindAllEntries(s, i + 1)
    ELSE <<<<Slice(s, i + 1, EntryQ2(s, i) - 1),
             Slice(s, EntryQ3(s, i) + 1, EntryQ4(s, i) - 1)>>>>
         \o FindAllEntries(s, EntryQ4(s, i) + 1)

\* key.replace("-", "") (line 43)
Collapsed(key) == ReplaceChar(key, "-")

\* line 44 without "collapsed not in lookup": the last registrant wins
AliasAllowedLastWins(collapsed, key, entries, lookup_) ==
    /\ collapsed # <<>>
    /\ collapsed # key
    /\ ~DictHas(entries, collapsed)

\* the condition of line 44
AliasAllowed(collapsed, key, entries, lookup_) ==
    /\ collapsed # <<>>
    /\ collapsed # key
    /\ ~DictHas(entries, collapsed)
    /\ ~DictHas(lookup_, collapsed)

\* one iteration of the loop of lines 39-45
LookupStep(lookup_, entries, key, description) ==
    IF description = <<>> THEN lookup_
    ELSE LET lookup1 == DictSet(lookup_, key, description)
         IN  IF AliasAllowed(Collapsed(key), key, entries, lookup1)
             THEN DictSet(lookup1, Collapsed(key), description)
             ELSE lookup1

RECURSIVE LookupLoop(_, _, _)
LookupLoop(entries, i, lookup_) ==
    IF i > Len(entries) THEN lookup_
    ELSE LookupLoop(entries, i + 1,
                    LookupStep(lookup_, entries, entries[i][1], entries[i][2]))

\* lines 37-46, on the matched block
LookupOfBlock(block) ==
    LET entries == dict(FindAllEntries(block, 1))
    IN  LookupLoop(entries, 1, <<>>)

\* read_layout_lookup's result on a layout text in which the search matches
read_layout_lookup(text) == LookupOfBlock(EntriesGroup(text))

(***************************************************************************)
(* iter_layout_pages (lines 49-76).                                        *)
(***************************************************************************)
IncludeOpen == <<"i","n","c","l","u","d","e","(">>
LayoutName == <<"l","a","y","o","u","t">>
IncludeClose == <<"}", ")">>
QuoteChars == {"'", "\""}

\* r"include\((?:'|\")layout(?:'|\")\s*,\s*\{" attempted at index i: the index
\* after the "{", 0 where the attempt fails
IncludeHead(text, i) ==
    LET q1 == i + Len(IncludeOpen)
        q2 == q1 + 1 + Len(LayoutName)
    IN  IF ~MatchesAt(text, i, IncludeOpen) THEN 0
        ELSE IF q2 > Len(text) \/ text[q1] \notin QuoteChars THEN 0
        ELSE IF ~MatchesAt(text, q1 + 1, LayoutName) \/ text[q2] \notin QuoteChars THEN 0
        ELSE LET comma == SkipSpace(text, q2 + 1)
             IN  IF comma > Len(text) \/ text[comma] # "," THEN 0
                 ELSE LET brace == SkipSpace(text, comma + 1)
                      IN  IF brace > Len(text) \/ text[brace] # "{" THEN 0
                          ELSE brace + 1

\* include_pattern.search(text) from index i: the index where group 1 starts in
\* the leftmost match, 0 when nothing matches (line 58); a match starts at an
\* occurrence of "include("
RECURSIVE IncludeSearch(_, _)
IncludeSearch(text, i) ==
    IF i = 0 \/ i > Len(text) THEN 0
    ELSE IF IncludeHead(text, i) # 0 /\ Find(text, IncludeClose, IncludeHead(text, i)) # 0
         THEN IncludeHead(text, i)
    ELSE IncludeSearch(text, Find(text, IncludeOpen, i + 1))

\* match.group(1): up to the first "})" (non-greedy) (line 61)
IncludeBlock(text) ==
    LET b == IncludeSearch(text, 1)
    IN  Slice(text, b, Find(text, IncludeClose, b) - 1)

ValueStop == {",", "\n"}

\* r"(\w+)\s*:\s*([^,\n]+)" attempted at index i, a word character: the index
\* where group 2 starts, 0 where the attempt fails. \s* after the colon takes all
\* the white space when a value character follows it, and otherwise gives back
\* as little as leaves a character other than a newline for group 2.
LastNotNewline(s, m, low) ==
    LET k == LastNotIn(s, m, {"\n"})
    IN  IF k < low THEN 0 ELSE k

PropValueStart(s, i) ==
    LET colon == SkipSpace(s, SkipWord(s, i))
    IN  IF colon > Len(s) \/ s[colon] # ":" THEN 0
        ELSE LET k == SkipSpace(s, colon + 1)
             IN  IF k <= Len(s) /\ s[k] \notin ValueStop THEN k
                 ELSE LastNotNewline(s, k - 1, colon + 1)

\* re.findall(r"(\w+)\s*:\s*([^,\n]+)", s) (line 63)
RECURSIVE FindAllProps(_, _)
FindAllProps(s, i) ==
    IF i > Len(s) THEN <<>>
    ELSE IF ~IsWord(s[i]) THEN FindAllProps(s, FirstIn(s, i, WordChars))
    ELSE IF PropValueStart(s, i) = 0 THEN FindAllProps(s, SkipWord(s, i))
    ELSE LET v == PropValueStart(s, i)
             e == SkipUntil(s, v, ValueStop)
         IN  <<<<Slice(s, i, SkipWord(s, i) - 1), Slice(s, v, e - 1)>>>>
             \o FindAllProps(s, e)

OrOperator == <<"|", "|">>
PageSlugKey == <<"p","a","g","e","S","l","u","g">>
CurrentPageKey == <<"c","u","r","r","e","n","t","P","a","g","e">>
PageDescriptionKey == <<"p","a","g","e","D","e","s","c","r","i","p","t","i","o","n">>
HtmlExt == <<".","h","t","m","l">>

\* value.split("||")[1], for a value that contains "||" (line 69)
SplitOrSecond(value) ==
    LET a == Find(value, OrOperator, 1)
        b == Find(value, OrOperator, a + 2)
    IN  Slice(value, a + 2, IF b = 0 THEN Len(value) ELSE b - 1)

\* lines 67-70: the cleaned value of a property
CleanValue(value) ==
    LET value1 == IF Contains(value, OrOperator) THEN SplitOrSecond(value) ELSE value
    IN  Strip(RemoveChars(value1, {"'", "\"", "(", ")"}))

\* os.path.splitext(filename)[0] for a name without directory (line 75)
LastDot(s, j) == LastIn(s, j, {"."})

SplitextRoot(filename) ==
    LET dot == LastDot(filename, Len(filename))
    IN  IF dot # 0 /\ \E k \in 1..(dot - 1) : filename[k] # "."
        THEN Slice(filename, 1, dot - 1)
        ELSE filename

\* lines 64-75: the slug candidate of a page
SlugCandidate(props, filename) ==
    IF DictHas(props, PageSlugKey) /\ CleanValue(DictGet(props, PageSlugKey)) # <<>>
    THEN CleanValue(DictGet(props, PageSlugKey))
    ELSE IF DictHas(props, CurrentPageKey)
            /\ CleanValue(DictGet(props, CurrentPageKey)) # <<>>
    THEN CleanValue(DictGet(props, CurrentPageKey))
    ELSE SplitextRoot(filename)

\* line 62
HasInlineDescription(block) == Contains(block, PageDescriptionKey)

\* os.path.join(current_root, filename) (line 55)
PathOf(file) ==
    IF file.dir = <<>> \/ file.dir[Len(file.dir)] = "/"
    THEN file.dir \o file.name
    ELSE file.dir \o <<"/">> \o file.name

\* lines 53-59: the generator yields a triple for this file
YieldsPage(file) == EndsWith(file.name, HtmlExt) /\ IncludeSearch(file.text, 1) # 0

\* line 76: the triple yielded for a file that includes the layout
PageRecord(file) ==
    LET block == IncludeBlock(file.text)
        props == dict(FindAllProps(block, 1))
    IN  [path |-> PathOf(file),
         slug |-> slugify(SlugCandidate(props, file.name)),
         has_inline |-> HasInlineDescription(block)]

(***************************************************************************)
(* main (lines 79-104).                                                    *)
(***************************************************************************)
\* lines 85-91 without the test of has_inline
IsCoveredByLookupOnly(record, lookup_) == DictHas(lookup_, record.slug)

\* lines 85-91: the list a page record is appended to
IsCovered(record, lookup_) == record.has_inline \/ DictHas(lookup_, record.slug)

\* lines 93-96 with total_pages counting every page record
ReportCountsEveryPage(coverage_, missing_) ==
    [total_pages |-> Len(coverage_) + Len(missing_), missing_descriptions |-> missing_]

\* lines 93-96
Report(coverage_, missing_) ==
    [total_pages |-> Len(coverage_), missing_descriptions |-> missing_]

\* line 102
MissingPrefix == <<"M","i","s","s","i","n","g"," ","d","e","s","c","r","i","p","t","i","o","n"," ","f","o","r"," ","s","l","u","g"," ","'">>
MissingFrom == <<"'"," ","f","r","o","m"," ">>
MissingLine(entry) == MissingPrefix \o entry[2] \o MissingFrom \o entry[1]

\* the for loop of line 84 with a break at the first missing page
ScanFinishedAtFirstMissing == idx > Len(files) \/ missing # <<>>

\* the for loop of line 84 has consumed the generator
ScanFinished == idx > Len(files)

\* line 100 without its test: the run always returns 0
ExitStatusAlwaysZero(missing_) == 0

\* line 100
ExitStatus(missing_) == IF missing_ # <<>> THEN 1 ELSE 0

\* line 80, the search matches: the lookup is built and the scan starts
LoadLookup ==
    /\ pc = "start"
    /\ entries_match(layout_text)
    /\ lookup' = read_layout_lookup(layout_text)
    /\ pc' = "scan"
    /\ UNCHANGED <<layout_text, files, idx, records, coverage, missing, stdout,
                   stderr, exit_status, error, entries_src, value_in, value_out>>

\* lines 34-35: RuntimeError leaves main and the interpreter (line 108); an
\* uncaught exception ends the process with status 1 and a traceback
RaiseNoEntries ==
    /\ pc = "start"
    /\ ~entries_match(layout_text)
    /\ pc' = "raised"
    /\ error' = "RuntimeError"
    /\ exit_status' = <<1>>
    /\ UNCHANGED <<layout_text, files, lookup, idx, records, coverage, missing,
                   stdout, stderr, entries_src, value_in, value_out>>

\* lines 53-54 and 59-60: the generator passes over a file
SkipFile ==
    /\ pc = "scan"
    /\ ~ScanFinished
    /\ ~YieldsPage(files[idx])
    /\ idx' = idx + 1
    /\ UNCHANGED <<pc, layout_text, files, lookup, records, coverage, missing,
                   stdout, stderr, exit_status, error, entries_src, value_in,
                   value_out>>

\* lines 61-76 and 84-91: the generator yields a page and main classifies it
ClassifyPage ==
    /\ pc = "scan"
    /\ ~ScanFinished
    /\ YieldsPage(files[idx])
    /\ LET record == PageRecord(files[idx])
       IN  /\ records' = Append(records, record)
           /\ IF IsCovered(record, lookup)
              THEN /\ coverage' = Append(coverage, <<record.path, record.slug>>)
                   /\ UNCHANGED missing
              ELSE /\ missing' = Append(missing, <<record.path, record.slug>>)
                   /\ UNCHANGED coverage
    /\ idx' = idx + 1
    /\ UNCHANGED <<pc, layout_text, files, lookup, stdout, stderr, exit_status,
                   error, entries_src, value_in, value_out>>

\* lines 93-98
PrintReport ==
    /\ pc = "scan"
    /\ ScanFinished
    /\ stdout' = Append(stdout, Report(coverage, missing))
    /\ pc' = "errors"
    /\ UNCHANGED <<layout_text, files, lookup, idx, records, coverage, missing,
                   stderr, exit_status, error, entries_src, value_in, value_out>>

\* lines 101-102: one line of the loop over missing
PrintMissing ==
    /\ pc = "errors"
    /\ Len(stderr) < Len(missing)
    /\ stderr' = Append(stderr, MissingLine(missing[Len(stderr) + 1]))
    /\ UNCHANGED <<pc, layout_text, files, lookup, idx, records, coverage, missing,
                   stdout, exit_status, error, entries_src, value_in, value_out>>

\* lines 103-104 and 108
ReturnStatus ==
    /\ pc = "errors"
    /\ Len(stderr) = Len(missing)
    /\ exit_status' = <<ExitStatus(missing)>>
    /\ pc' = "done"
    /\ UNCHANGED <<layout_text, files, lookup, idx, records, coverage, missing,
                   stdout, stderr, error, entries_src, value_in, value_out>>

Next ==
    \/ LoadLookup
    \/ RaiseNoEntries
    \/ SkipFile
    \/ ClassifyPage
    \/ PrintReport
    \/ PrintMissing
    \/ ReturnStatus

(***************************************************************************)
(* The inputs of a run: the layout template and the files under the root,  *)
(* written out as text from the entries and properties they declare.       *)
(***************************************************************************)
\* sep.join(parts)
RECURSIVE Join(_, _, _)
Join(parts, i, sep) ==
    IF i > Len(parts) THEN <<>>
    ELSE IF i = Len(parts) THEN parts[i]
    ELSE parts[i] \o sep \o Join(parts, i + 1, sep)

\* an entry of the table, 'key': 'value'
Entry(key, value) == [key |-> key, value |-> value]
EntryText(e, gap) == <<"'">> \o e.key \o <<"'", ":">> \o gap \o <<"'">> \o e.value \o <<"'">>
EntriesText(es, gap) ==
    <<" ">> \o Join([i \in 1..Len(es) |-> EntryText(es[i], gap)], 1, <<",", " ">>) \o <<" ">>

EmSpace == "U+2003"

OtherMarker == <<"v","a","r"," ","p","a","g","e","E","n","t","r","i","e","s"," ","="," ","{">>
\* the table of layout.html: under its marker; with an em space after each
\* colon; cut before its ";"; under another name
LayoutText(es, form) ==
    IF form = "table" THEN EntriesMarker \o EntriesText(es, <<" ">>) \o EntriesClose
    ELSE IF form = "wide" THEN EntriesMarker \o EntriesText(es, <<EmSpace>>) \o EntriesClose
    ELSE IF form = "unclosed" THEN EntriesMarker \o EntriesText(es, <<" ">>) \o <<"}">>
    ELSE OtherMarker \o EntriesText(es, <<" ">>) \o EntriesClose

\* an operand of a property value: a variable, or a string literal between
\* quotes with pad around its text
Operand(text, quote, pad) == [text |-> text, quote |-> quote, pad |-> pad]
Var(name) == Operand(name, <<>>, <<>>)
Lit(text) == Operand(text, <<"'">>, <<>>)
OperandText(o) == o.quote \o o.pad \o o.text \o o.pad \o o.quote

\* a property of an include call, key: operand || ... || operand, the value
\* between parentheses or not
Prop(key, operands, parens) == [key |-> key, operands |-> operands, parens |-> parens]
OrSign == <<" ", "|", "|", " ">>
RawValue(p) ==
    (IF p.parens THEN <<"(">> ELSE <<>>)
    \o Join([i \in 1..Len(p.operands) |-> OperandText(p.operands[i])], 1, OrSign)
    \o (IF p.parens THEN <<")">> ELSE <<>>)
PropText(p) == p.key \o <<":", " ">> \o RawValue(p)
BlockText(props, sep) ==
    <<" ">> \o Join([i \in 1..Len(props) |-> PropText(props[i])], 1, sep) \o <<" ">>

ScriptOpen == <<"<","?","!","="," ">>
ScriptClose == <<" ","?",">">>
FooterCall == <<"i","n","c","l","u","d","e","(","'","f","o","o","t","e","r","'",","," ","{">>
SingleCall == <<"i","n","c","l","u","d","e","(","'","l","a","y","o","u","t","'",","," ","{">>
DoubleCall == <<"i","n","c","l","u","d","e","(","\"","l","a","y","o","u","t","\""," ",",",EmSpace,"{">>
PlainText == <<"<","p",">","l","a","y","o","u","t","<","/","p",">">>

\* the text of a file below its head: a layout include with single or double
\* quotes, an include of another template, a paragraph, or nothing
PageText(kind, props, sep) ==
    IF kind = "bare" THEN <<>>
    ELSE IF kind = "none" THEN PlainText
    ELSE ScriptOpen
         \o (IF kind = "single" THEN SingleCall
             ELSE IF kind = "double" THEN DoubleCall
             ELSE FooterCall)
         \o BlockText(props, sep) \o IncludeClose \o ScriptClose

FileOf(head, base, ext, kind, props, sep) ==
    [dir |-> <<>>, name |-> base \o ext, text |-> head \o PageText(kind, props, sep),
     head |-> head, base |-> base, ext |-> ext, kind |-> kind, props |-> props,
     sep |-> sep]

File(base, ext, kind, props, sep) == FileOf(<<>>, base, ext, kind, props, sep)

\* ROOT (line 16), here the root of the file system, and two directories in it
Root == <<"/">>
SubDirs == {<<"/", "d", "1">>, <<"/", "d", "2">>}

Placed(file, dir) == [file EXCEPT !.dir = dir]

CommaSep == <<",", " ">>
LineSep == <<",", "\n", " ", " ">>

\* LAYOUT_PATH (line 17): layout.html lies in ROOT, so the walk reads it too;
\* below its table it may hold an include of the layout
LayoutBase == <<"l","a","y","o","u","t">>
LayoutFile(es, form, kind, props) ==
    Placed(FileOf(LayoutText(es, form) \o <<"\n">>, LayoutBase, HtmlExt, kind, props,
                  CommaSep), Root)
Layout(es, form, kind, props) ==
    [entries |-> es, file |-> LayoutFile(es, form, kind, props)]

\* names of slugs and files
AboutUs == <<"a","b","o","u","t","-","u","s">>
CaseStudy == <<"c","a","s","e","-","s","t","u","d","y">>
CaseStudyJoined == <<"c","a","s","e","s","t","u","d","y">>
Contact == <<"c","o","n","t","a","c","t">>
Team == <<"t","e","a","m">>
FallbackSlug == <<"f","a","l","l","b","a","c","k","-","s","l","u","g">>
TitleKey == <<"t","i","t","l","e">>

SlugAboutUs == Prop(PageSlugKey, <<Lit(AboutUs)>>, FALSE)
SlugFallback ==
    Prop(PageSlugKey, <<Var(<<"s","o","m","e","V","a","r">>), Lit(FallbackSlug)>>, TRUE)
SlugChain ==
    Prop(PageSlugKey, <<Var(<<"a">>), Var(<<"b">>), Lit(FallbackSlug)>>, TRUE)
SlugBlank == Prop(PageSlugKey, <<Operand(<<>>, <<"'">>, <<EmSpace>>)>>, FALSE)
AccentedSlug == Prop(<<"U+0101", "U+4E2D">> \o PageSlugKey, <<Lit(Team)>>, FALSE)
CurrentContact == Prop(CurrentPageKey, <<Lit(Contact)>>, FALSE)
CurrentTeam == Prop(CurrentPageKey, <<Lit(Team)>>, FALSE)
CurrentCaseStudy ==
    Prop(CurrentPageKey,
         <<Operand(<<"C","a","s","e"," ","S","t","u","d","y">>, <<"\"">>, <<>>)>>, FALSE)
CurrentEmpty == Prop(CurrentPageKey, <<Var(<<"p","a","g","e">>), Lit(<<>>)>>, FALSE)
DescriptionTeam == Prop(PageDescriptionKey, <<Lit(<<"O","u","r"," ","t","e","a","m">>)>>, FALSE)
DescriptionEmpty == Prop(PageDescriptionKey, <<Lit(<<>>)>>, FALSE)
TitleTeam == Prop(TitleKey, <<Lit(Team)>>, FALSE)
TitleDescription == Prop(TitleKey, <<Lit(PageDescriptionKey)>>, FALSE)

TextExt == <<".","t","x","t">>

\* the layout templates of the runs of main
TableTwo == <<Entry(AboutUs, <<"L","e","a","r","n"," ","a","b","o","u","t"," ","o","u","r"," ","t","e","a","m">>), Entry(CaseStudy, <<"A"," ","c","a","s","e"," ","s","t","u","d","y">>)>>
LayoutPool ==
    {Layout(TableTwo, "table", "bare", <<>>),
     Layout(TableTwo, "table", "single", <<CurrentContact>>),
     Layout(TableTwo, "other", "single", <<SlugAboutUs>>),
     Layout(TableTwo, "unclosed", "bare", <<>>)}

\* the other files of the runs of main
PagePool ==
    {File(AboutUs, HtmlExt, "single", <<SlugAboutUs>>, CommaSep),
     File(Contact, HtmlExt, "single", <<CurrentContact>>, CommaSep),
     File(Team, HtmlExt, "single", <<DescriptionTeam, CurrentTeam>>, CommaSep),
     File(Team, HtmlExt, "double", <<CurrentTeam, DescriptionEmpty>>, LineSep),
     File(Contact, HtmlExt, "single", <<SlugFallback>>, CommaSep),
     File(CaseStudyJoined, HtmlExt, "double", <<TitleTeam>>, CommaSep),
     File(Team, HtmlExt, "none", <<>>, CommaSep)}

\* the sequences over a set of at most n elements
SeqsUpTo(S, n) == UNION {[1..k -> S] : k \in 0..n}

InsertAt(q, k, x) == SubSeq(q, 1, k) \o <<x>> \o SubSeq(q, k + 1, Len(q))

\* os.walk(root) (line 51) reads the files of the root first, then one
\* directory after the other, the files of a directory together, under
\* distinct paths; the order of the files of a directory and the order of the
\* directories are those of the file system
WalkOrder(w) ==
    /\ \A i, j \in 1..Len(w) : (i < j /\ w[j].dir = Root) => w[i].dir = Root
    /\ \A i, j, k \in 1..Len(w) :
          (i < k /\ k < j /\ w[i].dir = w[j].dir) => w[k].dir = w[i].dir
    /\ \A i, j \in 1..Len(w) :
          (w[i].dir = w[j].dir /\ w[i].name = w[j].name) => i = j

\* the walks over layout.html and the files fs laid out in directories dirs
Walks(layout, fs, dirs) ==
    {w \in {InsertAt([i \in 1..Len(fs) |-> Placed(fs[i], ds[i])], p, layout.file) :
                ds \in [1..Len(fs) -> dirs], p \in 0..Len(fs)} : WalkOrder(w)}

\* the state of main before its first line (lines 79-82)
InitRun(layout, walk) ==
    /\ pc = "start"
    /\ layout_text = layout.file.text
    /\ entries_src = layout.entries
    /\ files = walk
    /\ lookup = <<>>
    /\ idx = 1
    /\ records = <<>>
    /\ coverage = <<>>
    /\ missing = <<>>
    /\ stdout = <<>>
    /\ stderr = <<>>
    /\ exit_status = <<>>
    /\ error = "none"
    /\ value_in = <<>>
    /\ value_out = <<>>

Init ==
    \E layout \in LayoutPool, fs \in SeqsUpTo(PagePool, MaxFiles) :
        \E walk \in Walks(layout, fs, {Root} \cup SubDirs) : InitRun(layout, walk)

Spec == Init /\ [][Next]_vars

(***************************************************************************)
(* The page scanner on every include block of at most MaxProps properties, *)
(* in a file next to layout.html.                                          *)
(***************************************************************************)
TeamPage == <<"T","e","a","m","_","P","a","g","e">>

PropPool ==
    {SlugAboutUs, SlugFallback, SlugChain, SlugBlank, AccentedSlug, CurrentContact,
     CurrentCaseStudy, CurrentEmpty, DescriptionTeam, TitleDescription}

\* a page with single quotes and its properties on one line, a page with double
\* quotes and a property a line, and three files that are no layout page
ScanPool ==
    {File(CaseStudyJoined, HtmlExt, "single", props, CommaSep) :
        props \in SeqsUpTo(PropPool, MaxProps)}
    \cup {File(TeamPage, HtmlExt, "double", props, LineSep) :
        props \in SeqsUpTo(PropPool, MaxProps)}
    \cup {File(Team, HtmlExt, "none", <<>>, CommaSep),
          File(AboutUs, HtmlExt, "other", <<SlugAboutUs>>, CommaSep),
          File(AboutUs, TextExt, "single", <<SlugAboutUs>>, CommaSep)}

ScanLayouts ==
    {Layout(TableTwo, "table", "single", <<SlugAboutUs>>),
     Layout(TableTwo, "other", "bare", <<>>)}

InitScan ==
    \E layout \in ScanLayouts, f \in ScanPool :
        \E walk \in Walks(layout, <<f>>, {Root}) : InitRun(layout, walk)

SpecScan == InitScan /\ [][Next]_vars

(***************************************************************************)
(* The lookup loader on every table of at most MaxEntries entries.         *)
(***************************************************************************)
KeyPool == {<<"a","-","b">>, <<"a","b">>, <<"-","a","b">>, <<"-">>}
ValuePool == {<<"X">>, <<"Y">>, <<>>}
EntryPool == {Entry(key, value) : key \in KeyPool, value \in ValuePool}

LookupLayouts ==
    {Layout(es, "table", "bare", <<>>) : es \in SeqsUpTo(EntryPool, MaxEntries)}
    \cup {Layout(es, form, "bare", <<>>) : es \in SeqsUpTo(EntryPool, 1),
                                            form \in {"wide", "other", "unclosed"}}

InitLookup == \E layout \in LookupLayouts : InitRun(layout, <<layout.file>>)

\* line 80 alone
NextLookup ==
    \/ LoadLookup
    \/ RaiseNoEntries

SpecLookup == InitLookup /\ [][NextLookup]_vars

(***************************************************************************)
(* slugify on every string of at most MaxLen characters of SlugAlphabet.   *)
(***************************************************************************)
KelvinSign == "U+212A"
SlugAlphabet == {"a", "B", "7", "-", " ", "_", KelvinSign, EmSpace}

InitSlug ==
    /\ pc = "slugify"
    /\ value_in \in SeqsUpTo(SlugAlphabet, MaxLen)
    /\ value_out = <<>>
    /\ layout_text = <<>>
    /\ entries_src = <<>>
    /\ files = <<>>
    /\ lookup = <<>>
    /\ idx = 1
    /\ records = <<>>
    /\ coverage = <<>>
    /\ missing = <<>>
    /\ stdout = <<>>
    /\ stderr = <<>>
    /\ exit_status = <<>>
    /\ error = "none"

\* a call of slugify (lines 20-23)
CallSlugify ==
    /\ pc = "slugify"
    /\ value_out' = <<slugify(value_in)>>
    /\ pc' = "returned"
    /\ UNCHANGED <<layout_text, files, lookup, idx, records, coverage, missing,
                   stdout, stderr, exit_status, error, entries_src, value_in>>

SpecSlug == InitSlug /\ [][CallSlugify]_vars

(***************************************************************************)
(* What the inputs declare, read off the entries and properties they were  *)
(* written from and not off the text.                                      *)
(***************************************************************************)
Range(q) == {q[i] : i \in 1..Len(q)}

\* an HTML file whose text holds an include of the layout with a property block
LayoutPage(file) == file.ext = HtmlExt /\ file.kind \in {"single", "double"}

\* the last property of the block with this key, as a set of at most one
LastProp(file, key) ==
    {file.props[k] : k \in {k \in 1..Len(file.props) :
        /\ file.props[k].key = key
        /\ \A m \in (k + 1)..Len(file.props) : file.props[m].key # key}}

\* the value a property denotes: its right-hand operand, without quotes,
\* parentheses and surrounding white space
DeclaredValue(p) == p.operands[Len(p.operands)].text

\* the block passes a pageDescription property
DeclaresDescription(file) == LastProp(file, PageDescriptionKey) # {}

\* the value of the pageDescription property is a non-empty string
DeclaresNonEmptyDescription(file) ==
    \E p \in LastProp(file, PageDescriptionKey) : DeclaredValue(p) # <<>>

\* the word pageDescription stands somewhere in the block, in a key or in a value
MentionsDescription(file) ==
    \E p \in Range(file.props) :
        \/ Contains(p.key, PageDescriptionKey)
        \/ \E o \in Range(p.operands) : Contains(o.text, PageDescriptionKey)

\* pageSlug first, then currentPage, then the base name of the file
DeclaredCandidate(file) ==
    IF \E p \in LastProp(file, PageSlugKey) : DeclaredValue(p) # <<>>
    THEN DeclaredValue(CHOOSE p \in LastProp(file, PageSlugKey) : TRUE)
    ELSE IF \E p \in LastProp(file, CurrentPageKey) : DeclaredValue(p) # <<>>
    THEN DeclaredValue(CHOOSE p \in LastProp(file, CurrentPageKey) : TRUE)
    ELSE file.base

\* the records yielded for the i-th file
RecordsAt(i) == {r \in Range(records) : r.path = PathOf(files[i])}
Scanned == 1..(idx - 1)

CoveredPaths == {c[1] : c \in Range(coverage)}
MissingPaths == {m[1] : m \in Range(missing)}

\* the i-th file is a layout page without inline description whose slug is no
\* key of the lookup
Undescribed(i) ==
    /\ LayoutPage(files[i])
    /\ ~DeclaresDescription(files[i])
    /\ \E r \in RecordsAt(i) : ~DictHas(lookup, r.slug)

\* the i-th file is a layout page with an inline description or a slug in the lookup
Described(i) ==
    /\ LayoutPage(files[i])
    /\ \/ DeclaresDescription(files[i])
       \/ \E r \in RecordsAt(i) : DictHas(lookup, r.slug)

(***************************************************************************)
(* C2: when a run ends with exit 0, every HTML file that includes the      *)
(* layout has a non-empty description: a non-empty inline pageDescription  *)
(* value, or a slug that the lookup maps to a non-empty description.       *)
(***************************************************************************)
SuccessMeansNonEmptyDescription ==
    (pc = "done" /\ exit_status = <<0>>) =>
        \A i \in 1..Len(files) :
            LayoutPage(files[i]) =>
                \/ DeclaresNonEmptyDescription(files[i])
                \/ \E r \in RecordsAt(i) :
                      DictHas(lookup, r.slug) /\ DictGet(lookup, r.slug) # <<>>

(***************************************************************************)
(* C3: a page whose include block contains pageDescription, as a property  *)
(* key or anywhere else, is covered whatever the lookup and its slug are;  *)
(* and a page covered through the lookup stays covered when a              *)
(* pageDescription property is added to its include call, at any place of  *)
(* the block.                                                              *)
(***************************************************************************)
WithDescription(file, k, d) ==
    Placed(FileOf(file.head, file.base, file.ext, file.kind,
                  InsertAt(file.props, k, d), file.sep), file.dir)

InlineDescriptionAlwaysCovers ==
    \A i \in Scanned :
        LayoutPage(files[i]) =>
            /\ MentionsDescription(files[i]) =>
                  PathOf(files[i]) \in CoveredPaths \ MissingPaths
            /\ (~MentionsDescription(files[i]) /\ PathOf(files[i]) \in CoveredPaths) =>
                  \A d \in {DescriptionTeam, DescriptionEmpty},
                     k \in 0..Len(files[i].props) :
                        /\ YieldsPage(WithDescription(files[i], k, d))
                        /\ IsCovered(PageRecord(WithDescription(files[i], k, d)), lookup)

InlineDescriptionWitness ==
    \E i, j \in Scanned :
        /\ LayoutPage(files[i])
        /\ MentionsDescription(files[i]) /\ ~DeclaresDescription(files[i])
        /\ \E r \in RecordsAt(i) : ~DictHas(lookup, r.slug)
        /\ PathOf(files[i]) \in CoveredPaths
        /\ LayoutPage(files[j]) /\ ~MentionsDescription(files[j])
        /\ PathOf(files[j]) \in CoveredPaths

(* a completed run: the abort ends with the exception, a status other than *)
(* 0, no report and no line of a missing description, whereas a run that   *)
(* exits 0 or 1 ends without exception, has printed its report, and with   *)
(* status 1 at least one line of a missing description.                    *)
(***************************************************************************)
MissingMarkerAborts ==
    /\ (pc # "start" /\ ~Contains(layout_text, EntriesMarker)) => pc = "raised"
    /\ pc = "raised" =>
          /\ error = "RuntimeError"
          /\ exit_status \notin {<<>>, <<0>>}
          /\ idx = 1 /\ records = <<>> /\ coverage = <<>> /\ missing = <<>>
          /\ stdout = <<>> /\ stderr = <<>>
    /\ pc = "done" =>
          /\ error = "none"
          /\ exit_status \in {<<0>>, <<1>>}
          /\ Len(stdout) = 1
          /\ exit_status = <<1>> => stderr # <<>>
    /\ pc \notin {"raised", "done"} => (error = "none" /\ exit_status = <<>>)

MissingMarkerWitness ==
    /\ pc = "raised"
    /\ ~Contains(layout_text, EntriesMarker)
    /\ \E i \in 1..Len(files) : LayoutPage(files[i])

(***************************************************************************)
(* C6: in a table that writes each key once, every explicit key of the     *)
(* source block that the lookup holds maps to its own description, every   *)
(* key with a non-empty description is held, and every other key of the    *)
(* lookup is the hyphen-stripped form of a key of the block that differs   *)
(* from it, mapped to that key's description: no alias stands in the place *)
(* of an explicit key, in any order of the entries.                        *)
(***************************************************************************)
NoDuplicateKeys(es) == \A a, b \in 1..Len(es) : a # b => es[a].key # es[b].key
\* the keys written in the block, whatever their description
ExplicitKeys(es) == {e.key : e \in Range(es)}
\* the description the block gives a key
OwnDescription(es, key) == (CHOOSE e \in Range(es) : e.key = key).value
\* the hyphens taken out of a key
WithoutHyphens(key) == SelectSeq(key, LAMBDA c : c # "-")

AliasNeverReplacesExplicitKey ==
    (pc = "scan" /\ NoDuplicateKeys(entries_src)) =>
        /\ \A key \in ExplicitKeys(entries_src) :
              /\ OwnDescription(entries_src, key) # <<>> => DictHas(lookup, key)
              /\ DictHas(lookup, key) =>
                    DictGet(lookup, key) = OwnDescription(entries_src, key)
        /\ \A key \in DictKeys(lookup) \ ExplicitKeys(entries_src) :
              \E e \in Range(entries_src) :
                  /\ WithoutHyphens(e.key) = key
                  /\ e.key # key
                  /\ DictGet(lookup, key) = e.value

(***************************************************************************)
(* C7: slugify returns the empty string or groups of lowercase letters and *)
(* digits separated by single hyphens, without a hyphen at either end; and *)
(* so is the slug of every page record and of every missing entry.         *)
(***************************************************************************)
IsSlug(v) ==
    \/ v = <<>>
    \/ /\ \A k \in 1..Len(v) : v[k] \in LowerSet \cup DigitChars \cup {"-"}
       /\ v[1] # "-"
       /\ v[Len(v)] # "-"
       /\ \A k \in 1..(Len(v) - 1) : ~(v[k] = "-" /\ v[k + 1] = "-")

SlugShape ==
    /\ \A v \in Range(value_out) : IsSlug(v)
    /\ \A r \in Range(records) : IsSlug(r.slug)
    /\ \A m \in Range(missing) : IsSlug(m[2])

SlugShapeWitness ==
    /\ value_in = <<"-", "B", "_", " ">>
    /\ value_out = <<<<"b">>>>

(***************************************************************************)
(* C8: the run reads every file before it reports; the report is printed   *)
(* before any line on standard error; the lines on standard error are the  *)
(* entries of missing_descriptions in order, one each, and none when it is *)
(* empty; the exit status is set after all of them.                        *)
(***************************************************************************)
MissingNeverShortCircuits ==
    /\ pc = "scan" => (stdout = <<>> /\ stderr = <<>> /\ exit_status = <<>>)
    /\ pc \in {"errors", "done"} =>
          /\ idx = Len(files) + 1
          /\ \A i \in 1..Len(files) : LayoutPage(files[i]) => RecordsAt(i) # {}
          /\ Len(records) = Len(coverage) + Len(missing)
          /\ Len(stdout) = 1
          /\ stdout[1].missing_descriptions = missing
    /\ Len(stderr) <= Len(missing)
    /\ \A k \in 1..Len(stderr) :
          stderr[k] = MissingPrefix \o missing[k][2] \o MissingFrom \o missing[k][1]
    /\ pc = "errors" => exit_status = <<>>
    /\ pc = "done" => Len(stderr) = Len(missing)

MissingNeverShortCircuitsWitness ==
    /\ pc = "done"
    /\ exit_status = <<1>>
    /\ Len(missing) = 2
    /\ Len(stderr) = 2
    /\ missing[1][1] = PathOf(files[1])
    /\ \E i \in 2..Len(files) : LayoutPage(files[i]) /\ missing[2][1] = PathOf(files[i])

(***************************************************************************)
(* C9 as stated: for a table without duplicate keys, every order of the    *)
(* same entries gives the same lookup, aliases included.                   *)
(***************************************************************************)
Orders(n) == {f \in [1..n -> 1..n] : \A a, b \in 1..n : a # b => f[a] # f[b]}
Reordered(es, f) == [k \in 1..Len(es) |-> es[f[k]]]
LookupOf(es) == read_layout_lookup(LayoutText(es, "table"))

LookupIgnoresOrder ==
    (pc = "scan" /\ NoDuplicateKeys(entries_src)) =>
        \A f \in Orders(Len(entries_src)) :
            DictItems(LookupOf(Reordered(entries_src, f))) = DictItems(lookup)

(***************************************************************************)
(* C9 as amended: for a table without duplicate keys, every order of the   *)
(* entries gives the same keys, and the same description for every key but *)
(* a contested alias: a non-empty string that is the hyphen-stripped form  *)
(* of two or more keys with non-empty descriptions and is not itself a key *)
(* with a non-empty description.  A contested alias maps to the            *)
(* description of the first of those keys in the order of the table.       *)
(***************************************************************************)
\* the keys the table gives a non-empty description
DescribedKeys(es) == {e.key : e \in {e \in Range(es) : e.value # <<>>}}

\* the places of the entries with a non-empty description whose key collapses
\* to alias and differs from it
Registrants(es, alias) ==
    {k \in 1..Len(es) : /\ es[k].value # <<>>
                        /\ WithoutHyphens(es[k].key) = alias
                        /\ es[k].key # alias}

ContestedAliases(es) ==
    {alias \in {WithoutHyphens(e.key) : e \in Range(es)} :
        /\ alias # <<>>
        /\ alias \notin DescribedKeys(es)
        /\ Cardinality(Registrants(es, alias)) >= 2}

FirstRegistrant(es, alias) ==
    es[CHOOSE k \in Registrants(es, alias) : \A m \in Registrants(es, alias) : k <= m]

LookupIgnoresOrderButForContestedAliases ==
    (pc = "scan" /\ NoDuplicateKeys(entries_src)) =>
        \A f \in Orders(Len(entries_src)) :
            LET es == Reordered(entries_src, f)
                other == LookupOf(es)
            IN  /\ DictKeys(other) = DictKeys(lookup)
                /\ \A key \in DictKeys(lookup) \ ContestedAliases(entries_src) :
                      DictGet(other, key) = DictGet(lookup, key)
                /\ \A alias \in ContestedAliases(entries_src) :
                      /\ DictHas(other, alias)
                      /\ DictGet(other, alias) = FirstRegistrant(es, alias).value

LookupOrderWitness ==
    /\ pc = "scan"
    /\ NoDuplicateKeys(entries_src)
    /\ Len(entries_src) = 3
    /\ entries_src[2].value = <<>>
    /\ entries_src[2].key \in ContestedAliases(entries_src)
    /\ entries_src[1].value # entries_src[3].value
    /\ DictGet(lookup, entries_src[2].key) = entries_src[1].value

(***************************************************************************)
(* C10: the slug of a page record is slugify of the cleaned pageSlug value *)
(* when that is non-empty, else of the cleaned currentPage value when that *)
(* is non-empty, else of the file name without its extension; the cleaned  *)
(* value is the right-hand operand of "||" without quotes, parentheses and *)
(* surrounding white space.                                                *)
(***************************************************************************)
SlugFollowsPriority ==
    \A i \in Scanned :
        LayoutPage(files[i]) =>
            /\ RecordsAt(i) # {}
            /\ \A r \in RecordsAt(i) : r.slug = slugify(DeclaredCandidate(files[i]))

====
